---- MODULE Spec2Model ----
(***************************************************************************)
(* A model of score-k8s: the secret-reference codec, the conversion of    *)
(* container variables, the provisioner dispatcher and the generate       *)
(* command with its state directory.                                      *)
(*                                                                         *)
(* Strings are sequences of one-character strings.  The two emoji of the  *)
(* codec's sentinels are written "lock" (U+1F510) and "talk" (U+1F4AC):   *)
(* each is one code point, and UTF-8 matches only on code point           *)
(* boundaries, so byte-level search and code-point-level search agree.    *)
(***************************************************************************)
EXTENDS Integers, Sequences, FiniteSets, TLC

VARIABLES cIn, cDec, cScan, cEnv, pState, pRegistry, pRun,
          gIn, gFs, gPc, gMem, gRun, gPrev,
          xIn, xOut

codecVars == <<cIn, cDec, cScan, cEnv>>

provVars == <<pState, pRegistry, pRun>>

genVars == <<gIn, gFs, gPc, gMem, gRun, gPrev>>

convVars == <<xIn, xOut>>

vars ==
    <<cIn, cDec, cScan, cEnv, pState, pRegistry, pRun, gIn, gFs, gPc, gMem, gRun, gPrev,
      xIn, xOut>>

(***************************************************************************)
(* Bounds of the model.                                                    *)
(***************************************************************************)
MaxStrLen == 5

MaxTokens == 3

MaxNameLen == 3

MaxKeyLen == 2

MaxProvisioners == 3

(***************************************************************************)
(* Go's strings package, as far as the codec uses it.                      *)
(***************************************************************************)
HasAt(s, i, p) ==
    /\ i >= 1
    /\ i + Len(p) - 1 <= Len(s)
    /\ \A j \in 1..Len(p) : s[i + j - 1] = p[j]

\* strings.Index: the 0-based offset of the first occurrence, or -1.
Index(s, p) ==
    IF \E i \in 1..Len(s) : HasAt(s, i, p)
    THEN (CHOOSE i \in 1..Len(s) : HasAt(s, i, p) /\ \A j \in 1..(i - 1) : ~HasAt(s, j, p)) - 1
    ELSE -1

\* s[from:] with a 0-based offset.
SliceFrom(s, from) == SubSeq(s, from + 1, Len(s))

\* s[:to] with a 0-based offset.
SliceTo(s, to) == SubSeq(s, 1, to)

RECURSIVE Split(_, _)
\* strings.Split with a non-empty separator.
Split(s, sep) ==
    LET i == Index(s, sep) IN
    IF i < 0 THEN <<s>>
    ELSE <<SliceTo(s, i)>> \o Split(SliceFrom(s, i + Len(sep)), sep)

\* A mutant of SplitN2: splits at the last separator instead of the first.
SplitN2AtLast(s, sep) ==
    IF Index(s, sep) < 0 THEN <<s>>
    ELSE LET i == CHOOSE k \in 1..Len(s) :
                      HasAt(s, k, sep) /\ \A j \in (k + 1)..Len(s) : ~HasAt(s, j, sep)
         IN <<SubSeq(s, 1, i - 1), SubSeq(s, i + Len(sep), Len(s))>>

\* strings.SplitN(s, sep, 2).
SplitN2(s, sep) ==
    LET i == Index(s, sep) IN
    IF i < 0 THEN <<s>>
    ELSE <<SliceTo(s, i), SliceFrom(s, i + Len(sep))>>

(***************************************************************************)
(* internal/secrets.go                                                     *)
(***************************************************************************)
magicPrefix == <<"lock", "talk">>

magicSuffix == <<"talk", "lock">>

EncodeSecretReference(secret, key) ==
    magicPrefix \o secret \o <<"_">> \o key \o magicSuffix

SecretRef(name, key) == [Name |-> name, Key |-> key]

RECURSIVE DecodeLoop(_, _, _)
\* The loop of DecodeSecretReferences over parts[1:], i counting from 1 as
\* the Go index 1+i does; returns the (parts, output, err) of the function.
DecodeLoop(parts, output, i) ==
    IF i > Len(parts) THEN [err |-> FALSE, parts |-> parts, refs |-> output]
    ELSE
        LET part == parts[i]
            si   == Index(part, magicSuffix)
        IN IF si >= 0
           THEN LET r    == SliceTo(part, si)
                    rest == SliceFrom(part, si + Len(magicSuffix))
                    bits == SplitN2(r, <<"_">>)
                IN IF Len(bits) # 2
                   THEN [err |-> TRUE, parts |-> <<>>, refs |-> <<>>]
                   ELSE DecodeLoop([parts EXCEPT ![i] = rest],
                                   Append(output, SecretRef(bits[1], bits[2])),
                                   i + 1)
           ELSE DecodeLoop(parts, output, i + 1)

DecodeSecretReferences(source) ==
    DecodeLoop(Split(source, magicPrefix), <<>>, 2)

(***************************************************************************)
(* Manifest values: the dynamic YAML tree, tagged by its Go type.          *)
(***************************************************************************)
Str(s) == [t |-> "string", s |-> s]

Map(keys, f) == [t |-> "map", keys |-> keys, f |-> f]

List(l) == [t |-> "list", l |-> l]

\* The string case of FindFirstUnresolvedSecretRef.
StringHasUnresolvedRef(typed) ==
    LET pp == Index(typed, magicPrefix)
        sp == Index(typed, magicSuffix)
    IN pp >= 0 /\ sp > 0 /\ sp > pp

RECURSIVE UnresolvedPaths(_, _)
\* The paths FindFirstUnresolvedSecretRef can return for v: Go ranges over a
\* map in an unspecified order, so any offending entry may be the first.
UnresolvedPaths(path, v) ==
    CASE v.t = "string" -> IF StringHasUnresolvedRef(v.s) THEN {path} ELSE {}
      [] v.t = "map"    -> UNION {UnresolvedPaths(Append(path, k), v.f[k]) : k \in v.keys}
      [] v.t = "list"   -> UNION {UnresolvedPaths(Append(path, ToString(i - 1)), v.l[i]) : i \in 1..Len(v.l)}
      [] OTHER          -> {}

\* The boolean FindFirstUnresolvedSecretRef returns.
FindFirstUnresolvedSecretRef(path, v) == UnresolvedPaths(path, v) # {}

(***************************************************************************)
(* internal/convert/container_variables.go                                 *)
(***************************************************************************)
NoValueFrom == [set |-> FALSE, Name |-> <<>>, Key |-> <<>>]

SecretKeyRef(ref) == [set |-> TRUE, Name |-> ref.Name, Key |-> ref.Key]

EnvVar(name, value, valueFrom) == [Name |-> name, Value |-> value, ValueFrom |-> valueFrom]

\* The printable ASCII characters, from the space (32) to the tilde (126);
\* the backquote is written out.
Ascii ==
    <<" ", "!", "\"", "#", "$", "%", "&", "'", "(", ")", "*", "+", ",", "-", ".", "/",
      "0", "1", "2", "3", "4", "5", "6", "7", "8", "9", ":", ";", "<", "=", ">", "?",
      "@", "A", "B", "C", "D", "E", "F", "G", "H", "I", "J", "K", "L", "M", "N", "O",
      "P", "Q", "R", "S", "T", "U", "V", "W", "X", "Y", "Z", "[", "\\", "]", "^", "_",
      "backquote", "a", "b", "c", "d", "e", "f", "g", "h", "i", "j", "k", "l", "m", "n", "o",
      "p", "q", "r", "s", "t", "u", "v", "w", "x", "y", "z", "{", "|", "}", "~">>

\* The code point of a character: Go compares strings byte by byte, and
\* UTF-8 keeps the order of code points.
CodePoint(c) ==
    IF c = "talk" THEN 128172
    ELSE IF c = "lock" THEN 128272
    ELSE 31 + (CHOOSE i \in 1..Len(Ascii) : Ascii[i] = c)

\* []byte(c): the UTF-8 encoding of a character.
Utf8(c) ==
    LET cp == CodePoint(c)
    IN IF cp < 128 THEN <<cp>>
       ELSE <<240 + (cp \div 262144), 128 + ((cp \div 4096) % 64),
              128 + ((cp \div 64) % 64), 128 + (cp % 64)>>

RECURSIVE Bytes(_)
\* []byte(s).
Bytes(s) == IF s = <<>> THEN <<>> ELSE Utf8(Head(s)) \o Bytes(Tail(s))

RECURSIVE Xor(_, _, _)
\* a ^ b on numbers of the given count of bits.
Xor(a, b, bits) ==
    IF bits = 0 THEN 0
    ELSE (IF a % 2 = b % 2 THEN 0 ELSE 1) + 2 * Xor(a \div 2, b \div 2, bits - 1)

\* hash/fnv: the offset basis of the 128-bit hash, 0x6c62272e07bb0142
\* 62b821756295c58d, as its sixteen bytes from the lowest.
offset128 ==
    <<141, 197, 149, 98, 117, 33, 184, 98, 66, 1, 187, 7, 46, 39, 98, 108>>

\* hash/fnv: the prime of the 128-bit hash is 2^88 + prime128Lower.
prime128Lower == 315

\* The byte, counted from the lowest, at which 2^88 begins.
prime128Shift == 11

RECURSIVE MulPrime(_, _, _)
\* The sixteen bytes of h times the prime modulo 2^128, from byte i on,
\* with the carry of the bytes below.
MulPrime(h, i, carry) ==
    IF i > Len(h) THEN <<>>
    ELSE LET t == h[i] * prime128Lower
                    + (IF i > prime128Shift THEN h[i - prime128Shift] ELSE 0) + carry
         IN <<t % 256>> \o MulPrime(h, i + 1, t \div 256)

\* The product, its lowest byte combined with the byte written.
XorLowest(h, c) == <<Xor(h[1], c, 8)>> \o Tail(h)

RECURSIVE Sum128Write(_, _)
\* The Write of sum128 in hash/fnv (FNV-1): for every byte, the hash is
\* multiplied by the prime and the byte is then combined into it.
Sum128Write(h, data) ==
    IF data = <<>> THEN h
    ELSE Sum128Write(XorLowest(MulPrime(h, 1, 0), Head(data)), Tail(data))

\* The Sum(nil) of sum128: the sixteen bytes from the highest.
Sum128(h) == [i \in 1..Len(h) |-> h[Len(h) + 1 - i]]

\* encoding/base64: the alphabet of the URL encoding.
encodeURL ==
    <<"A", "B", "C", "D", "E", "F", "G", "H", "I", "J", "K", "L", "M", "N", "O", "P",
      "Q", "R", "S", "T", "U", "V", "W", "X", "Y", "Z", "a", "b", "c", "d", "e", "f",
      "g", "h", "i", "j", "k", "l", "m", "n", "o", "p", "q", "r", "s", "t", "u", "v",
      "w", "x", "y", "z", "0", "1", "2", "3", "4", "5", "6", "7", "8", "9", "-", "_">>

RECURSIVE EncodeToString(_)
\* base64.RawURLEncoding.EncodeToString: four characters for three bytes,
\* and no padding after the characters of the bytes left over.
EncodeToString(src) ==
    IF src = <<>> THEN <<>>
    ELSE IF Len(src) = 1
    THEN <<encodeURL[1 + (src[1] \div 4)], encodeURL[1 + (src[1] % 4) * 16]>>
    ELSE IF Len(src) = 2
    THEN <<encodeURL[1 + (src[1] \div 4)],
           encodeURL[1 + (src[1] % 4) * 16 + (src[2] \div 16)],
           encodeURL[1 + (src[2] % 16) * 4]>>
    ELSE <<encodeURL[1 + (src[1] \div 4)],
           encodeURL[1 + (src[1] % 4) * 16 + (src[2] \div 16)],
           encodeURL[1 + (src[2] % 16) * 4 + (src[3] \div 64)],
           encodeURL[1 + (src[3] % 64)]>>
         \o EncodeToString(SubSeq(src, 4, Len(src)))

\* strings.NewReplacer("_", "0", "-", "0").Replace.
ReplaceUnderscoreAndDash(s) ==
    [i \in 1..Len(s) |-> IF s[i] \in {"_", "-"} THEN "0" ELSE s[i]]

\* The 128-bit FNV digest of the bytes written, in its base64 rendering
\* with "_" and "-" replaced.
Fnv128Base64(bytes) ==
    ReplaceUnderscoreAndDash(EncodeToString(Sum128(Sum128Write(offset128, bytes))))

\* The hash is fed secretName and then key, with nothing in between.
generateSecretRefEnvVarName(secretName, key) ==
    <<"_", "_", "r", "e", "f", "_">>
        \o Fnv128Base64(Bytes(secretName) \o Bytes(key))

RECURSIVE ReferencedSecrets(_, _)
\* The first loop of the mixed case: one synthetic env var per reference.
ReferencedSecrets(refs, i) ==
    IF i > Len(refs) THEN <<>>
    ELSE <<EnvVar(generateSecretRefEnvVarName(refs[i].Name, refs[i].Key), <<>>,
                  SecretKeyRef(refs[i]))>>
         \o ReferencedSecrets(refs, i + 1)

RECURSIVE BuildValue(_, _, _)
\* The second loop of the mixed case, over parts from index i (1-based):
\* before every part but the first it reads refs[i-1] (Go index i-1), which
\* panics when there are fewer references than that.
BuildValue(parts, refs, i) ==
    IF i > Len(parts) THEN [panic |-> FALSE, s |-> <<>>]
    ELSE IF i > 1 /\ i - 1 > Len(refs) THEN [panic |-> TRUE, s |-> <<>>]
    ELSE LET rest == BuildValue(parts, refs, i + 1)
             head == IF i > 1
                     THEN <<"$", "(">>
                          \o generateSecretRefEnvVarName(refs[i - 1].Name, refs[i - 1].Key)
                          \o <<")">>
                     ELSE <<>>
         IN IF rest.panic THEN rest
            ELSE [panic |-> FALSE, s |-> head \o parts[i] \o rest.s]

\* "One secret reference taking up the whole value", as the code tests it.
IsWholeValueRef(parts, refs) ==
    Len(refs) = 1 /\ parts[1] = <<>> /\ parts[2] = <<>>

\* convertContainerVariable after the substitution of placeholders:
\* resolvedValue is the substituted value.  outcome is "ok", "error" (a
\* returned error) or "panic" (an index out of range).
convertContainerVariable(key, resolvedValue) ==
    LET d == DecodeSecretReferences(resolvedValue) IN
    IF d.err THEN [outcome |-> "error", env |-> <<>>]
    ELSE IF Len(d.refs) = 0
    THEN [outcome |-> "ok", env |-> <<EnvVar(key, resolvedValue, NoValueFrom)>>]
    ELSE IF IsWholeValueRef(d.parts, d.refs)
    THEN [outcome |-> "ok", env |-> <<EnvVar(key, <<>>, SecretKeyRef(d.refs[1]))>>]
    ELSE LET v == BuildValue(d.parts, d.refs, 1) IN
         IF v.panic THEN [outcome |-> "panic", env |-> <<>>]
         ELSE [outcome |-> "ok",
               env |-> ReferencedSecrets(d.refs, 1) \o <<EnvVar(key, v.s, NoValueFrom)>>]

(***************************************************************************)
(* The project state (framework.State with project.ResourceExtras) and     *)
(* the provisioner dispatcher, internal/provisioners.                      *)
(*                                                                         *)
(* A Go map that may be nil is [nil, m]; a YAML null value is Null.        *)
(***************************************************************************)
Null == "<null>"

EmptyMap == [k \in {} |-> Null]

NilMap == [nil |-> TRUE, m |-> EmptyMap]

SomeMap(m) == [nil |-> FALSE, m |-> m]

\* A resource uid "type.class#id" with its Type(), Class() and Id().
ResourceUid(type, class, id) == [type |-> type, class |-> class, id |-> id]

\* framework.NewResourceUid: a declaration with an id is shared under that
\* id, one without is private to the workload as "<workload>.<resName>"; a
\* declaration without a class has the class "default".
NewResourceUid(workloadName, resName, resType, resClass, resId) ==
    ResourceUid(resType,
                IF resClass.nil THEN <<"default">> ELSE resClass.v,
                IF resId.nil THEN <<workloadName, ".", resName>> ELSE resId.v)

\* The resource uids of the model, in the lexicographic order of their
\* string form: dns.default#shared, dns.fast#w1.b, vol.default#w1.c.
UidsInOrder ==
    <<ResourceUid("dns", <<"default">>, <<"shared">>),
      ResourceUid("dns", <<"fast">>, <<"w1", ".", "b">>),
      ResourceUid("vol", <<"default">>, <<"w1", ".", "c">>)>>

\* state.GetSortedResourceUids for resources without params: by uid.
GetSortedResourceUids(resources) ==
    SelectSeq(UidsInOrder, LAMBDA u : u \in DOMAIN resources)

\* A resource as the primer leaves it before its first provisioning.
PrimedResource(guid) ==
    [Guid |-> guid, ProvisionerUri |-> "", State |-> EmptyMap, Outputs |-> EmptyMap,
     Manifests |-> <<>>]

\* An optional string of a provisioner record (*string): nil, or a value.
Nil == [nil |-> TRUE, v |-> <<>>]

Ptr(v) == [nil |-> FALSE, v |-> v]

\* A mutant of Match: the class filter is ignored.
MatchIgnoringClass(p, resUid) ==
    IF resUid.type # p.ResType THEN FALSE
    ELSE IF ~p.ResId.nil /\ resUid.id # p.ResId.v THEN FALSE
    ELSE TRUE

\* Provisioner.Match of the template provisioner.
Match(p, resUid) ==
    IF resUid.type # p.ResType THEN FALSE
    ELSE IF ~p.ResClass.nil /\ resUid.class # p.ResClass.v THEN FALSE
    ELSE IF ~p.ResId.nil /\ resUid.id # p.ResId.v THEN FALSE
    ELSE TRUE

\* slices.IndexFunc(provisioners, Match): the first index (1-based), or 0
\* where Go returns -1.
ProvisionerIndex(provisioners, resUid) ==
    IF \E i \in 1..Len(provisioners) : Match(provisioners[i], resUid)
    THEN CHOOSE i \in 1..Len(provisioners) :
             /\ Match(provisioners[i], resUid)
             /\ \A j \in 1..(i - 1) : ~Match(provisioners[j], resUid)
    ELSE 0

\* A mutant of UriConflict: the provisionerUri lock is not enforced.
UriConflictIgnored(resState, provisioner) == FALSE

\* The provisionerUri lock of ProvisionResources.
UriConflict(resState, provisioner) ==
    resState.ProvisionerUri # "" /\ resState.ProvisionerUri # provisioner.ProvisionerUri

\* util.PatchMap: a copy of current in which the keys of patch with a null
\* value are deleted and its other keys overwrite.
PatchMap(current, patch) ==
    LET deleted == {k \in DOMAIN patch : patch[k] = Null}
        keys    == (DOMAIN current \cup DOMAIN patch) \ deleted
    IN [k \in keys |-> IF k \in DOMAIN patch THEN patch[k] ELSE current[k]]

\* A mutant of NewOutputs: the returned outputs are merged into the old.
MergedOutputs(existing, po) ==
    IF ~po.ResourceOutputs.nil
    THEN [k \in DOMAIN existing.Outputs \cup DOMAIN po.ResourceOutputs.m |->
            IF k \in DOMAIN po.ResourceOutputs.m THEN po.ResourceOutputs.m[k]
            ELSE existing.Outputs[k]]
    ELSE existing.Outputs

\* "Same with outputs, it must ALWAYS be updated."
NewOutputs(existing, po) ==
    IF ~po.ResourceOutputs.nil THEN po.ResourceOutputs.m ELSE EmptyMap

\* A mutant of NewSharedState: the returned shared state is dropped.
SharedStateKept(state, po) == state.SharedState

\* The shared state of ApplyToStateAndProject: the state's, patched with the
\* shared state returned when one was returned.
NewSharedState(state, po) ==
    IF ~po.SharedState.nil THEN PatchMap(state.SharedState, po.SharedState.m)
    ELSE state.SharedState

(***************************************************************************)
(* The memory of a run of ProvisionResources.  A *project.State is the     *)
(* address of a State struct; the Resources and SharedState fields of the  *)
(* struct are Go maps, which are references: the struct holds the address  *)
(* of each map.  Two structs that hold the same address share the map, and *)
(* a write to the map is seen through both.  An address is an index into   *)
(* the structs, the Resources maps or the SharedState maps of the memory;  *)
(* 0 is the nil pointer.                                                   *)
(***************************************************************************)
\* The memory that holds the state the caller passes in, at address 1.
MemoryOf(state) ==
    [states    |-> <<[state EXCEPT !.Resources = 1, !.SharedState = 1]>>,
     resources |-> <<state.Resources>>,
     shared    |-> <<state.SharedState>>]

\* The state at an address, with the contents of the maps it refers to.
StateAt(mem, p) ==
    [mem.states[p] EXCEPT !.Resources = mem.resources[@], !.SharedState = mem.shared[@]]

\* out := *state: the struct is copied to a new address, the last one, and
\* the copy refers to the maps of the original.
CopyState(mem, state) == [mem EXCEPT !.states = Append(@, mem.states[state])]

\* A mutant of CloneResources: out.Resources stays the map of the state
\* passed in.
ResourcesShared(mem, out) == mem

\* out.Resources = maps.Clone(state.Resources): a new map with the entries
\* of the old one.
CloneResources(mem, out) ==
    [mem EXCEPT !.resources = Append(@, mem.resources[mem.states[out].Resources]),
                !.states[out].Resources = Len(mem.resources) + 1]

\* if po.SharedState != nil { out.SharedState = util.PatchMap(..) }:
\* util.PatchMap returns a new map and leaves the maps it is given as they
\* are.
SetSharedState(mem, state, out, po) ==
    IF po.SharedState.nil THEN mem
    ELSE [mem EXCEPT !.shared = Append(@, NewSharedState(StateAt(mem, state), po)),
                     !.states[out].SharedState = Len(mem.shared) + 1]

\* existing once the output is applied to it; existing is a copy of the
\* struct that the map holds.
UpdatedResource(existing, po) ==
    [existing EXCEPT
        !.ProvisionerUri = po.ProvisionerUri,
        !.State = IF ~po.ResourceState.nil THEN po.ResourceState.m ELSE EmptyMap,
        !.Outputs = NewOutputs(existing, po),
        !.Manifests = IF Len(po.Manifests) > 0 THEN po.Manifests ELSE <<>>]

\* out.Resources[resUid] = existing: a write to the map out.Resources
\* refers to.
WriteResource(mem, out, resUid, existing) ==
    [mem EXCEPT !.resources[mem.states[out].Resources] = [@ EXCEPT ![resUid] = existing]]

\* ApplyToStateAndProject after out := *state and the clone: nil and an
\* error for an unknown resUid, else the address of out.
ApplyToCopy(po, mem, state, out, resUid) ==
    IF resUid \notin DOMAIN mem.resources[mem.states[out].Resources]
    THEN [err |-> TRUE, state |-> 0, mem |-> mem]
    ELSE [err |-> FALSE, state |-> out,
          mem |-> WriteResource(SetSharedState(mem, state, out, po), out, resUid,
                      UpdatedResource(mem.resources[mem.states[out].Resources][resUid], po))]

\* ProvisionOutput.ApplyToStateAndProject: the output of one provisioning
\* applied to resource resUid of the state at the address state.  It
\* returns the address of a new state (0 with an error) and leaves the
\* memory as its writes made it.
ApplyToStateAndProject(po, mem, state, resUid) ==
    ApplyToCopy(po, CloneResources(CopyState(mem, state), Len(mem.states) + 1),
                state, Len(mem.states) + 1, resUid)

\* A param of a resource: a literal, or the placeholder
\* ${resources.<res>.<key>} for an output of a resource of the workload.
Lit(s) == [ref |-> FALSE, res |-> "", key |-> "", lit |-> s]

Ref(res, key) == [ref |-> TRUE, res |-> res, key |-> key, lit |-> ""]

\* resState.Params != nil && len(resState.Params) > 0: a resource record
\* without the field Params is one whose Params are nil.
HasParams(resState) ==
    "Params" \in DOMAIN resState /\ DOMAIN resState.Params # {}

\* state.GetResourceOutputForWorkload: for every resource name the workload
\* declares, the outputs its resource holds in the state at this moment.
GetResourceOutputForWorkload(state, workloadName) ==
    LET decls  == state.Workloads[workloadName].resources
        uid(r) == NewResourceUid(workloadName, r, decls[r].Type, decls[r].Class, decls[r].Id)
    IN IF \E r \in DOMAIN decls : uid(r) \notin DOMAIN state.Resources
       THEN [err |-> TRUE, outputs |-> EmptyMap]
       ELSE [err |-> FALSE,
             outputs |-> [r \in DOMAIN decls |-> state.Resources[uid(r)].Outputs]]

\* framework.Substitute over the params: a placeholder becomes the output it
\* names, and one that names no resource or no output is an error.
Substitute(params, resOutputs) ==
    IF \E k \in DOMAIN params :
          /\ params[k].ref
          /\ \/ params[k].res \notin DOMAIN resOutputs
             \/ params[k].key \notin DOMAIN resOutputs[params[k].res]
    THEN [err |-> TRUE, params |-> EmptyMap]
    ELSE [err |-> FALSE,
          params |-> [k \in DOMAIN params |->
                        IF params[k].ref THEN resOutputs[params[k].res][params[k].key]
                        ELSE params[k].lit]]

\* The params of ProvisionResources once resOutputs is known.
SubstitutedWith(resState, resOutputs) ==
    IF resOutputs.err THEN [error |-> "failed to find resource params", params |-> NilMap]
    ELSE IF Substitute(resState.Params, resOutputs.outputs).err
    THEN [error |-> "failed to substitute params", params |-> NilMap]
    ELSE [error |-> "", params |-> SomeMap(Substitute(resState.Params, resOutputs.outputs).params)]

\* The params of ProvisionResources: nil for a resource without params,
\* else the params substituted against the outputs that out holds.
SubstitutedParams(resState, out) ==
    IF ~HasParams(resState) THEN [error |-> "", params |-> NilMap]
    ELSE SubstitutedWith(resState, GetResourceOutputForWorkload(out, resState.SourceWorkload))

\* What a provisioner is given (Input), as far as the model's resources
\* carry it: they declare no metadata.
Input(resUid, resState, out) ==
    [ResourceGuid |-> resState.Guid, ResourceUid |-> resUid,
     ResourceParams |-> SubstitutedParams(resState, out).params,
     ResourceState |-> resState.State, SharedState |-> out.SharedState]

NoError == [kind |-> "none", uid |-> ResourceUid("", <<>>, <<>>)]

Error(kind, resUid) == [kind |-> kind, uid |-> resUid]

\* ProvisionResources returning an error: return nil, fmt.Errorf(..).
\* state is what the local variable out held and passedIn what the state
\* of the caller, at address 1, holds when the function returns.
Fails(kind, resUid, mem, out, calls) ==
    [error |-> Error(kind, resUid), returned |-> 0, state |-> StateAt(mem, out),
     calls |-> calls, passedIn |-> StateAt(mem, 1)]

\* What a call of a provisioner is recorded as.
Call(resUid, provisionerIndex, input, failed, output, sharedAfter) ==
    [uid |-> resUid, index |-> provisionerIndex, input |-> input, failed |-> failed,
     output |-> output, sharedAfter |-> sharedAfter]

RECURSIVE ProvisionLoop(_, _, _, _, _, _)
\* The loop of ProvisionResources from the i-th ordered resource on, out
\* being the address the local variable out holds.  calls records, for
\* every provisioner invoked, which one it was, what it was given, what it
\* returned and the shared state after its output was applied.
ProvisionLoop(mem, out, provisioners, orderedResources, i, calls) ==
    IF i > Len(orderedResources)
    THEN [error |-> NoError, returned |-> out, state |-> StateAt(mem, out),
          calls |-> calls, passedIn |-> StateAt(mem, 1)]
    ELSE
        LET resUid           == orderedResources[i]
            resState         == StateAt(mem, out).Resources[resUid]
            provisionerIndex == ProvisionerIndex(provisioners, resUid)
        IN IF provisionerIndex = 0
           THEN Fails("not supported by any provisioner", resUid, mem, out, calls)
           ELSE LET provisioner == provisioners[provisionerIndex] IN
                IF UriConflict(resState, provisioner)
                THEN Fails("previously provisioned by a different provider", resUid, mem, out,
                           calls)
                ELSE IF SubstitutedParams(resState, StateAt(mem, out)).error # ""
                THEN Fails(SubstitutedParams(resState, StateAt(mem, out)).error, resUid,
                           mem, out, calls)
                ELSE IF provisioner.returns.fails
                THEN Fails("failed to provision", resUid, mem, out,
                           Append(calls,
                                  Call(resUid, provisionerIndex,
                                       Input(resUid, resState, StateAt(mem, out)),
                                       TRUE, provisioner.returns.output,
                                       StateAt(mem, out).SharedState)))
                ELSE LET output  == [provisioner.returns.output EXCEPT
                                        !.ProvisionerUri = provisioner.ProvisionerUri]
                         applied == ApplyToStateAndProject(output, mem, out, resUid)
                     IN IF applied.err
                        THEN Fails("failed to apply outputs", resUid, applied.mem, out, calls)
                        ELSE ProvisionLoop(applied.mem, applied.state, provisioners,
                                 orderedResources, i + 1,
                                 Append(calls,
                                    Call(resUid, provisionerIndex,
                                         Input(resUid, resState, StateAt(mem, out)),
                                         FALSE, output,
                                         StateAt(applied.mem, applied.state).SharedState)))

\* ProvisionResources on the state at address 1 of the memory (out :=
\* state): error.kind = "none" and the address of the new state, or the
\* error and nil.
ProvisionResources(state, provisioners) ==
    ProvisionLoop(MemoryOf(state), 1, provisioners, GetSortedResourceUids(state.Resources), 1,
                  <<>>)

(***************************************************************************)
(* Manifests and provisioners of the model.                                *)
(***************************************************************************)
ConfigMap(name, value) ==
    Map({"kind", "metadata", "data"},
        [kind     |-> Str(<<"ConfigMap">>),
         metadata |-> Map({"name"}, [name |-> Str(<<name>>)]),
         data     |-> Map({"key"}, [key |-> Str(value)])])

ProvisionOutput(state, outputs, shared, manifests) ==
    [ProvisionerUri |-> "", ResourceState |-> state, ResourceOutputs |-> outputs,
     SharedState |-> shared, Manifests |-> manifests]

\* What a provisioner's Provision returns: an output, or an error.
ReturnsNothing == [fails |-> FALSE, output |-> ProvisionOutput(NilMap, NilMap, NilMap, <<>>)]

ReturnsSome ==
    [fails |-> FALSE,
     output |-> ProvisionOutput(SomeMap([a |-> "b", c |-> Null]), SomeMap([x |-> "y"]),
                                SomeMap([i |-> "j", k |-> Null]),
                                <<ConfigMap("thing", <<"value">>)>>)]

ReturnsOther ==
    [fails |-> FALSE,
     output |-> ProvisionOutput(SomeMap([d |-> "e"]), SomeMap([z |-> "w"]),
                                SomeMap([k |-> "l", m |-> "n"]),
                                <<ConfigMap("other", <<"value">>), ConfigMap("thing", <<"value">>)>>)]

ReturnsError == [fails |-> TRUE, output |-> ProvisionOutput(NilMap, NilMap, NilMap, <<>>)]

Provisioner(uri, type, class, id, returns) ==
    [ProvisionerUri |-> uri, ResType |-> type, ResClass |-> class, ResId |-> id,
     returns |-> returns]

\* The provisioner records a *.provisioners.yaml file of the model can hold.
ProvisionerPool ==
    {Provisioner("template://one", "dns", Nil, Nil, ReturnsSome),
     Provisioner("template://two", "dns", Nil, Nil, ReturnsOther),
     Provisioner("template://one", "dns", Ptr(<<"fast">>), Nil, ReturnsNothing),
     Provisioner("template://two", "dns", Nil, Ptr(<<"shared">>), ReturnsSome),
     Provisioner("template://one", "vol", Nil, Nil, ReturnsOther),
     Provisioner("template://two", "vol", Nil, Nil, ReturnsError),
     Provisioner("template://two", "vol", Ptr(<<"default">>), Nil, ReturnsNothing)}

Range(f) == {f[i] : i \in DOMAIN f}

InsertAt(seq, i, e) == SubSeq(seq, 1, i - 1) \o <<e>> \o SubSeq(seq, i, Len(seq))

RemoveAt(seq, i) == SubSeq(seq, 1, i - 1) \o SubSeq(seq, i + 1, Len(seq))

(***************************************************************************)
(* The inputs of the codec specification.                                  *)
(***************************************************************************)
RECURSIVE StringsUpTo(_, _)
\* Every string over alphabet of length at most n.
StringsUpTo(alphabet, n) ==
    IF n = 0 THEN {<<>>}
    ELSE LET shorter == StringsUpTo(alphabet, n - 1)
         IN shorter \cup {Append(s, c) : s \in shorter, c \in alphabet}

RawAlphabet == {"lock", "talk", "_", "a"}

IsAlnum(c) == c \in {"a", "b"}

\* A DNS subdomain name: alphanumerics, '-' and '.', starting and ending
\* with an alphanumeric, no empty label.
IsSecretName(s) ==
    /\ Len(s) >= 1
    /\ \A i \in 1..Len(s) : IsAlnum(s[i]) \/ s[i] \in {"-", "."}
    /\ IsAlnum(s[1]) /\ IsAlnum(s[Len(s)])
    /\ \A i \in 1..(Len(s) - 1) : ~(s[i] = "." /\ s[i + 1] = ".")

\* A secret data key: alphanumerics, '-', '_' and '.'.
IsSecretKey(s) ==
    /\ Len(s) >= 1
    /\ \A i \in 1..Len(s) : IsAlnum(s[i]) \/ s[i] \in {"-", "_", "."}

SecretNames == {s \in StringsUpTo({"a", "."}, MaxNameLen) : IsSecretName(s)}

SecretKeys == {s \in StringsUpTo({"b", "_"}, MaxKeyLen) : IsSecretKey(s)}

Tokens ==
    {EncodeSecretReference(<<"a">>, <<"b">>), EncodeSecretReference(<<"a">>, <<"b", "_", "b">>),
     EncodeSecretReference(<<"b">>, <<"b">>),
     <<"a">>, <<"_">>, magicPrefix, magicSuffix}

RECURSIVE Concat(_)
Concat(seqs) == IF seqs = <<>> THEN <<>> ELSE Head(seqs) \o Concat(Tail(seqs))

TokenStrings == {Concat(ts) : ts \in UNION {[1..n -> Tokens] : n \in 0..MaxTokens}}

RawInput(s) == [source |-> s, enc |-> FALSE, name |-> <<>>, key |-> <<>>]

EncodedInput(n, k) ==
    [source |-> EncodeSecretReference(n, k), enc |-> TRUE, name |-> n, key |-> k]

CodecInputs ==
    {RawInput(s) : s \in StringsUpTo(RawAlphabet, MaxStrLen) \cup TokenStrings}
    \cup {EncodedInput(n, k) : n \in SecretNames, k \in SecretKeys}

NotRun == [run |-> FALSE]

\* The variables of the generate command where no command is modelled.
GenUnused ==
    /\ gIn = <<>>
    /\ gFs = <<>>
    /\ gPc = "idle"
    /\ gMem = <<>>
    /\ gRun = NotRun
    /\ gPrev = NotRun

\* The variables of the conversion where no conversion is modelled.
ConvUnused ==
    /\ xIn = <<>>
    /\ xOut = NotRun

(***************************************************************************)
(* The codec specification: an input string, and the codec's functions     *)
(* applied to it.                                                          *)
(***************************************************************************)
CodecInit ==
    /\ cIn \in CodecInputs
    /\ cDec = NotRun
    /\ cScan = NotRun
    /\ cEnv = NotRun
    /\ pState = [Resources |-> EmptyMap, SharedState |-> EmptyMap]
    /\ pRegistry = <<>>
    /\ pRun = NotRun
    /\ GenUnused
    /\ ConvUnused

Decode ==
    /\ cDec = NotRun
    /\ cDec' = [run |-> TRUE, out |-> DecodeSecretReferences(cIn.source)]
    /\ UNCHANGED <<cIn, cScan, cEnv, provVars, genVars, convVars>>

Scan ==
    /\ cScan = NotRun
    /\ cScan' = [run |-> TRUE, found |-> FindFirstUnresolvedSecretRef(<<>>, Str(cIn.source))]
    /\ UNCHANGED <<cIn, cDec, cEnv, provVars, genVars, convVars>>

ConvertVariable ==
    /\ cEnv = NotRun
    /\ cEnv' = [run |-> TRUE, out |-> convertContainerVariable(<<"K">>, cIn.source)]
    /\ UNCHANGED <<cIn, cDec, cScan, provVars, genVars, convVars>>

CodecNext == Decode \/ Scan \/ ConvertVariable

SpecCodec == CodecInit /\ [][CodecNext]_vars

(***************************************************************************)
(* The provisioning specification: a primed project whose resources are    *)
(* provisioned run after run, the provisioner files being edited between   *)
(* the runs.  pRun records the run that has just ended.                    *)
(***************************************************************************)
ProvInit ==
    /\ pState = [Resources |-> [u \in Range(UidsInOrder) |->
                                  PrimedResource(CHOOSE i \in 1..Len(UidsInOrder) :
                                                     UidsInOrder[i] = u)],
                 SharedState |-> EmptyMap]
    /\ pRegistry = <<>>
    /\ pRun = NotRun
    /\ cIn = RawInput(<<>>)
    /\ cDec = NotRun
    /\ cScan = NotRun
    /\ cEnv = NotRun
    /\ GenUnused
    /\ ConvUnused

\* A provisioner is added to the files of the state directory.
AddProvisioner ==
    /\ Len(pRegistry) < MaxProvisioners
    /\ \E p \in ProvisionerPool \ Range(pRegistry), i \in 1..(Len(pRegistry) + 1) :
          pRegistry' = InsertAt(pRegistry, i, p)
    /\ pRun' = NotRun
    /\ UNCHANGED <<pState, codecVars, genVars, convVars>>

\* A provisioner is removed from the files of the state directory.
RemoveProvisioner ==
    /\ \E i \in 1..Len(pRegistry) : pRegistry' = RemoveAt(pRegistry, i)
    /\ pRun' = NotRun
    /\ UNCHANGED <<pState, codecVars, genVars, convVars>>

\* A run of ProvisionResources that succeeds: the caller takes the state
\* returned.
ProvisionSucceeds ==
    LET r == ProvisionResources(pState, pRegistry) IN
    /\ r.error.kind = "none"
    /\ pState' = r.state
    /\ pRun' = [run |-> TRUE, before |-> pState, provisioners |-> pRegistry, result |-> r]
    /\ UNCHANGED <<pRegistry, codecVars, genVars, convVars>>

\* A run of ProvisionResources that fails: the caller returns the error.
ProvisionFails ==
    LET r == ProvisionResources(pState, pRegistry) IN
    /\ r.error.kind # "none"
    /\ pRun' = [run |-> TRUE, before |-> pState, provisioners |-> pRegistry, result |-> r]
    /\ UNCHANGED <<pState, pRegistry, codecVars, genVars, convVars>>

ProvNext == AddProvisioner \/ RemoveProvisioner \/ ProvisionSucceeds \/ ProvisionFails

SpecProv == ProvInit /\ [][ProvNext]_vars

(***************************************************************************)
(* Properties of the provisioner dispatcher.                               *)
(***************************************************************************)
\* The claims' reading of a match: the types are equal, and the class and
\* the id, when set on the provisioner, equal those of the resource.
Supports(p, u) ==
    /\ p.ResType = u.type
    /\ p.ResClass.nil \/ p.ResClass.v = u.class
    /\ p.ResId.nil \/ p.ResId.v = u.id

\* The index of the first provisioner in registry order that supports u,
\* or 0.
FirstSupporting(provisioners, u) ==
    IF \E i \in 1..Len(provisioners) : Supports(provisioners[i], u)
    THEN CHOOSE i \in 1..Len(provisioners) :
             /\ Supports(provisioners[i], u)
             /\ \A j \in 1..(i - 1) : ~Supports(provisioners[j], u)
    ELSE 0

Invoked(run, u) == \E n \in 1..Len(run.result.calls) : run.result.calls[n].uid = u

\* In a run, a resource whose pinned provisionerUri differs from the uri of
\* the first provisioner supporting it makes the run fail, and that
\* provisioner is not invoked for it.
UriLockHeld(run) ==
    \A u \in DOMAIN run.before.Resources :
        LET i == FirstSupporting(run.provisioners, u) IN
        (/\ i # 0
         /\ run.before.Resources[u].ProvisionerUri # ""
         /\ run.before.Resources[u].ProvisionerUri # run.provisioners[i].ProvisionerUri)
        => (run.result.error.kind # "none" /\ ~Invoked(run, u))

\* C4: once a resource has a non-empty provisionerUri, no step changes it
\* (a run fails or leaves it as it was), and a run in which the first
\* matching provisioner has another uri fails without invoking it.
C4_ProvisionerUriPinned ==
    [][/\ \A u \in DOMAIN pState.Resources :
             pState.Resources[u].ProvisionerUri # ""
             => pState'.Resources[u].ProvisionerUri = pState.Resources[u].ProvisionerUri
       /\ pRun'.run => UriLockHeld(pRun')]_vars

C4_Witness ==
    /\ pRun.run
    /\ pRun.result.error.kind = "previously provisioned by a different provider"
    /\ \E u \in DOMAIN pState.Resources : pState.Resources[u].ProvisionerUri # ""

\* after is before patched with returned: keys returned with a null value
\* are absent, other returned keys have the returned value, and keys not
\* returned are as they were.
IsPatchOf(after, before, returned) ==
    \A k \in DOMAIN after \cup DOMAIN before \cup DOMAIN returned :
        IF k \in DOMAIN returned
        THEN IF returned[k] = Null THEN k \notin DOMAIN after
             ELSE k \in DOMAIN after /\ after[k] = returned[k]
        ELSE (k \in DOMAIN after <=> k \in DOMAIN before)
             /\ (k \in DOMAIN after => after[k] = before[k])

MapOrEmpty(m) == IF m.nil THEN EmptyMap ELSE m.m

\* C5: after a successful run, every resource provisioned in it has exactly
\* the state, outputs and manifests its provisioner returned (empty when
\* none was returned), and the shared state after each provisioning is the
\* shared state before it patched with the returned shared state.
C5_OutputsReplacedSharedPatched ==
    (pRun.run /\ pRun.result.error.kind = "none") =>
        \A n \in 1..Len(pRun.result.calls) :
            LET c   == pRun.result.calls[n]
                res == pState.Resources[c.uid]
            IN /\ res.State = MapOrEmpty(c.output.ResourceState)
               /\ res.Outputs = MapOrEmpty(c.output.ResourceOutputs)
               /\ res.Manifests = c.output.Manifests
               /\ IsPatchOf(c.sharedAfter, c.input.SharedState,
                            MapOrEmpty(c.output.SharedState))
               /\ (n = Len(pRun.result.calls) => pState.SharedState = c.sharedAfter)

\* A resource provisioned before with outputs, state, manifests and shared
\* keys that this run's provisioner did not return.
C5_Witness ==
    /\ pRun.run /\ pRun.result.error.kind = "none"
    /\ \E n \in 1..Len(pRun.result.calls) :
          LET c   == pRun.result.calls[n]
              old == pRun.before.Resources[c.uid]
          IN /\ DOMAIN old.Outputs \ DOMAIN pState.Resources[c.uid].Outputs # {}
             /\ DOMAIN old.State \ DOMAIN pState.Resources[c.uid].State # {}
             /\ Len(old.Manifests) > Len(c.output.Manifests)
             /\ \E k \in DOMAIN c.input.SharedState : k \notin DOMAIN MapOrEmpty(c.output.SharedState)
             /\ \E k \in DOMAIN c.input.SharedState :
                   k \in DOMAIN MapOrEmpty(c.output.SharedState) /\ c.output.SharedState.m[k] = Null

\* Every resource ordered before position i was provisioned in the run.
AllBeforeSucceeded(run, ordered, i) ==
    \A j \in 1..(i - 1) :
        \E n \in 1..Len(run.result.calls) :
            run.result.calls[n].uid = ordered[j] /\ ~run.result.calls[n].failed

\* C6: the provisioner invoked for a resource is the first in registry order
\* that supports it, it is invoked once, and a resource that no provisioner
\* supports makes the run fail with "not supported by any provisioner" for
\* that resource.
C6_FirstMatchWins ==
    pRun.run =>
        LET calls   == pRun.result.calls
            ordered == GetSortedResourceUids(pRun.before.Resources)
        IN /\ \A n \in 1..Len(calls) :
                 calls[n].index = FirstSupporting(pRun.provisioners, calls[n].uid)
           /\ \A n, m \in 1..Len(calls) : calls[n].uid = calls[m].uid => n = m
           /\ \A i \in 1..Len(ordered) :
                 FirstSupporting(pRun.provisioners, ordered[i]) = 0 =>
                    /\ pRun.result.error.kind # "none"
                    /\ AllBeforeSucceeded(pRun, ordered, i) =>
                          pRun.result.error =
                              Error("not supported by any provisioner", ordered[i])

\* A resource was provisioned by the first of two provisioners that both
\* support it, the first one carrying a class or id filter.
C6_Witness ==
    /\ pRun.run
    /\ \E n \in 1..Len(pRun.result.calls) :
          LET c == pRun.result.calls[n] IN
          /\ ~pRun.provisioners[c.index].ResClass.nil
          /\ \E j \in (c.index + 1)..Len(pRun.provisioners) :
                Supports(pRun.provisioners[j], c.uid)

(***************************************************************************)
(* Properties of the codec and of the variable conversion.                 *)
(***************************************************************************)
RECURSIVE Interleave(_, _, _)
\* parts[i] encode(refs[i]) parts[i+1] ... for Len(parts) = Len(refs) + 1.
Interleave(parts, refs, i) ==
    IF i > Len(refs) THEN parts[i]
    ELSE parts[i] \o EncodeSecretReference(refs[i].Name, refs[i].Key)
         \o Interleave(parts, refs, i + 1)

\* C8: whenever DecodeSecretReferences returns segments and references for
\* a string s, there is one more segment than there are references, and
\* segment 0, encode(reference 0), segment 1, ... is s again.
C8_DecodeInterleavesToSource ==
    (cDec.run /\ ~cDec.out.err) =>
        /\ Len(cDec.out.parts) = Len(cDec.out.refs) + 1
        /\ Interleave(cDec.out.parts, cDec.out.refs, 1) = cIn.source

\* C9: decoding the encoding of a (secretName, key) that satisfies the
\* naming rules gives the two empty segments and the one reference
\* (secretName, key).
C9_DecodeOfEncode ==
    (cIn.enc /\ cDec.run) =>
        cDec.out = [err |-> FALSE, parts |-> << <<>>, <<>> >>,
                    refs |-> <<SecretRef(cIn.name, cIn.key)>>]

C9_Witness ==
    /\ cIn.enc /\ cDec.run
    /\ \E i \in 1..Len(cIn.key) : cIn.key[i] = "_"
    /\ \E i \in 1..Len(cIn.name) : cIn.name[i] = "."

\* s is one encoded reference and nothing else: the opening sentinel, a
\* body with a '_' and no character of a sentinel, the closing sentinel.
IsOneEncodedRef(s) ==
    /\ Len(s) >= 5
    /\ HasAt(s, 1, magicPrefix)
    /\ HasAt(s, Len(s) - 1, magicSuffix)
    /\ \E i \in 3..(Len(s) - 2) : s[i] = "_"
    /\ \A i \in 3..(Len(s) - 2) : s[i] \notin {"lock", "talk"}

\* The result is one env var bound by valueFrom.secretKeyRef, with no
\* literal value.
IsSecretKeyRefOnly(r) ==
    /\ r.outcome = "ok"
    /\ Len(r.env) = 1
    /\ r.env[1].ValueFrom.set
    /\ r.env[1].Value = <<>>

IsSubstring(p, s) == p = <<>> \/ Index(s, p) >= 0

\* C10: convertContainerVariable emits the single secretKeyRef env var
\* exactly when the substituted value is one encoded reference with empty
\* text on both sides; in every other case the text outside the references
\* is present in the emitted value of the user's env var.
C10_SecretKeyRefIffWholeValue ==
    cEnv.run =>
        /\ IsSecretKeyRefOnly(cEnv.out) <=> IsOneEncodedRef(cIn.source)
        /\ (~IsOneEncodedRef(cIn.source) /\ cEnv.out.outcome = "ok") =>
              LET d == DecodeSecretReferences(cIn.source)
                  v == cEnv.out.env[Len(cEnv.out.env)].Value
              IN \A i \in 1..Len(d.parts) : IsSubstring(d.parts[i], v)

(***************************************************************************)
(* The generate command, main_generate.go, with the files it reads and     *)
(* writes.  A file is Absent, Partial (created or truncated by a write     *)
(* that has not completed) or Full with its content.                       *)
(***************************************************************************)
Absent == <<>>

Partial == <<"partial">>

Full(data) == <<"full", data>>

StateFileName == <<"state.yaml">>

\* A mutant of StateTempName: the state file is written in place.
StateFileInPlace == <<"state.yaml">>

\* StateFileName+".temp", the file Persist writes before the inode move.
StateTempName == <<"state.yaml", ".temp">>

OutputName(v) == <<v>>

\* A mutant of OutputTempName: the manifests file is written in place.
OutputInPlace(v) == <<v>>

\* v+".tmp", the file the manifests are written to before the rename.
OutputTempName(v) == <<v, ".tmp">>

\* os.WriteFile, in its two observable steps: the file is created or
\* truncated, and then holds all of data.
WriteFileBegin(fs, path) == [fs EXCEPT ![path] = Partial]

WriteFileEnd(fs, path, data) == [fs EXCEPT ![path] = Full(data)]

\* os.Rename: one atomic replacement of the target.
Rename(fs, from, to) ==
    IF from = to THEN fs ELSE [fs EXCEPT ![to] = fs[from], ![from] = Absent]

EmptyState == [Workloads |-> EmptyMap, Resources |-> EmptyMap, SharedState |-> EmptyMap]

\* The YAML of the state: the manifests of a resource are not persisted
\* (ResourceExtras.Manifests is tagged yaml:"-").
EncodeState(state) ==
    [Workloads |-> state.Workloads,
     Resources |-> [u \in DOMAIN state.Resources |->
                       [Guid |-> state.Resources[u].Guid,
                        ProvisionerUri |-> state.Resources[u].ProvisionerUri,
                        State |-> state.Resources[u].State,
                        Outputs |-> state.Resources[u].Outputs]],
     SharedState |-> state.SharedState]

\* The state decoded from its YAML: every resource comes without manifests.
DecodeState(yaml) ==
    [Workloads |-> yaml.Workloads,
     Resources |-> [u \in DOMAIN yaml.Resources |->
                       [Guid |-> yaml.Resources[u].Guid,
                        ProvisionerUri |-> yaml.Resources[u].ProvisionerUri,
                        State |-> yaml.Resources[u].State,
                        Outputs |-> yaml.Resources[u].Outputs,
                        Manifests |-> <<>>]],
     SharedState |-> yaml.SharedState]

\* project.LoadStateDirectory: the error, or "" and the state.
LoadStateDirectory(fs) ==
    LET content == fs[StateFileName] IN
    IF content = Absent
    THEN [error |-> "state directory does not exist", state |-> EmptyState]
    ELSE IF content = Partial
    THEN [error |-> "state file couldn't be decoded", state |-> EmptyState]
    ELSE [error |-> "", state |-> DecodeState(content[2])]

\* A score file: the workload's name, whether the file passes the schema,
\* the variables of its one container (their values carry no placeholder,
\* so that substitution leaves them as they are) and its resources.
ScoreFile(name, valid, variables, resources) ==
    [name |-> name, valid |-> valid, variables |-> variables, resources |-> resources]

ResourceDecl(type, class, id) == [Type |-> type, Class |-> class, Id |-> id]

\* state.WithWorkload for every score file: the workload is added under its
\* name, replacing the workload of that name.
WithWorkloads(state, files) ==
    LET names == {f.name : f \in files}
        spec(n) == LET f == CHOOSE f \in files : f.name = n
                   IN [variables |-> f.variables, resources |-> f.resources]
    IN [state EXCEPT !.Workloads =
            [n \in DOMAIN state.Workloads \cup names |->
                IF n \in names THEN spec(n) ELSE state.Workloads[n]]]

\* The uids of the resources the workloads of the state declare.
DeclaredUids(state) ==
    UNION {{NewResourceUid(w, r, state.Workloads[w].resources[r].Type,
                           state.Workloads[w].resources[r].Class,
                           state.Workloads[w].resources[r].Id) :
               r \in DOMAIN state.Workloads[w].resources} :
           w \in DOMAIN state.Workloads}

\* state.WithPrimedResources: every declared resource that the state does
\* not hold yet is added with a fresh guid; guids gives the random guids.
WithPrimedResources(state, guids) ==
    [state EXCEPT !.Resources =
        [u \in DOMAIN state.Resources \cup DeclaredUids(state) |->
            IF u \in DOMAIN state.Resources THEN state.Resources[u]
            ELSE PrimedResource(guids[u])]]

(***************************************************************************)
(* The conversion of a workload, internal/convert.                         *)
(***************************************************************************)
RECURSIVE StringLess(_, _)
\* strings.Compare(a, b) < 0.
StringLess(a, b) ==
    IF b = <<>> THEN FALSE
    ELSE IF a = <<>> THEN TRUE
    ELSE IF CodePoint(Head(a)) # CodePoint(Head(b)) THEN CodePoint(Head(a)) < CodePoint(Head(b))
    ELSE StringLess(Tail(a), Tail(b))

RECURSIVE SortByName(_)
\* slices.SortFunc by Name, on variables whose names are distinct.
SortByName(envs) ==
    IF envs = <<>> THEN <<>>
    ELSE LET i == CHOOSE i \in 1..Len(envs) :
                     \A j \in 1..Len(envs) : ~StringLess(envs[j].Name, envs[i].Name)
         IN <<envs[i]>> \o SortByName(RemoveAt(envs, i))

RECURSIVE AddWithoutDuplicates(_, _)
\* "don't add things twice": adds is appended to out, but for the variables
\* whose name out already holds.
AddWithoutDuplicates(out, adds) ==
    IF adds = <<>> THEN out
    ELSE AddWithoutDuplicates(
             IF \E i \in 1..Len(out) : out[i].Name = Head(adds).Name THEN out
             ELSE Append(out, Head(adds)),
             Tail(adds))

RECURSIVE VariablesLoop(_, _, _, _)
\* One turn of the loop of convertContainerVariables: adds is what
\* convertContainerVariable returned for the i-th variable ranged over.
AddVariable(variables, order, i, out, adds) ==
    IF adds.outcome # "ok" THEN [outcome |-> adds.outcome, env |-> <<>>]
    ELSE VariablesLoop(variables, order, i + 1, AddWithoutDuplicates(out, adds.env))

VariablesLoop(variables, order, i, out) ==
    IF i > Len(order) THEN [outcome |-> "ok", env |-> SortByName(out)]
    ELSE AddVariable(variables, order, i, out,
                     convertContainerVariable(order[i], variables[order[i]]))

\* convertContainerVariables; order is the order in which Go ranges over the
\* map of variables.
convertContainerVariables(variables, order) == VariablesLoop(variables, order, 1, <<>>)

\* An env var as the YAML of the manifest holds it (empty fields omitted).
EnvVarYaml(e) ==
    LET keys == {"name"} \cup (IF e.Value # <<>> THEN {"value"} ELSE {})
                         \cup (IF e.ValueFrom.set THEN {"valueFrom"} ELSE {})
    IN Map(keys,
           [k \in keys |->
               CASE k = "name"  -> Str(e.Name)
                 [] k = "value" -> Str(e.Value)
                 [] OTHER       ->
                      Map({"secretKeyRef"},
                          [secretKeyRef |->
                              Map({"key", "name"},
                                  [key |-> Str(e.ValueFrom.Key),
                                   name |-> Str(e.ValueFrom.Name)])])])

\* The Deployment that the ConvertWorkload called by the generate command
\* appends to its manifests, as the YAML of the manifests file holds it and
\* as far as the model's workloads fill it.
Deployment(workloadName, env) ==
    Map({"kind", "metadata", "spec"},
        [kind     |-> Str(<<"Deployment">>),
         metadata |-> Map({"name"}, [name |-> Str(<<workloadName>>)]),
         spec     |->
             Map({"template"},
                 [template |->
                     Map({"spec"},
                         [spec |->
                             Map({"containers"},
                                 [containers |->
                                     List(<<Map({"env", "name"},
                                                [env  |-> List([i \in 1..Len(env) |->
                                                                   EnvVarYaml(env[i])]),
                                                 name |-> Str(<<"main">>)])>>)])])])])

\* What ConvertWorkload returns to the generate command once the variables
\* are converted: the manifests it built, or the error (or the panic) of
\* that conversion.  The generate command registers its workloads with
\* framework.NoExtras, so the ConvertWorkload it calls is the one that
\* returns the manifests it built, without converter inputs in between.
ConvertedManifests(workloadName, env) ==
    IF env.outcome # "ok" THEN [outcome |-> env.outcome, manifests |-> <<>>]
    ELSE [outcome |-> "ok", manifests |-> <<Deployment(workloadName, env.env)>>]

\* ConvertWorkload for a workload of one container.
ConvertWorkload(state, workloadName, order) ==
    ConvertedManifests(workloadName,
        convertContainerVariables(state.Workloads[workloadName].variables, order))

(***************************************************************************)
(* The manifests of a run: lines 179 to 230 of main_generate.go.           *)
(***************************************************************************)
RECURSIVE OverridePathInMap(_, _, _, _)
\* framework.OverridePathInMap on a map: the value at the dotted path is set
\* or deleted, the maps on the way being created where they are missing.
OverridePathInMap(m, path, isDelete, value) ==
    LET k == Head(path) IN
    IF Len(path) = 1
    THEN IF isDelete
         THEN Map(m.keys \ {k}, [j \in m.keys \ {k} |-> m.f[j]])
         ELSE Map(m.keys \cup {k}, [j \in m.keys \cup {k} |-> IF j = k THEN value ELSE m.f[j]])
    ELSE LET child == IF k \in m.keys /\ m.f[k].t = "map" THEN m.f[k] ELSE Map({}, EmptyMap)
             after == OverridePathInMap(child, Tail(path), isDelete, value)
         IN Map(m.keys \cup {k}, [j \in m.keys \cup {k} |-> IF j = k THEN after ELSE m.f[j]])

\* A --patch-manifests entry "<kind>/<name>/<path>=<value>": valid is FALSE
\* for an entry without "=" or without the two "/" of the filter.
PatchEntry(valid, kind, name, path, value) ==
    [valid |-> valid, kind |-> kind, name |-> name, path |-> path, value |-> value]

\* Whether the kind and name filters of a patch entry select a manifest.
PatchSelects(entry, manifest) ==
    LET kOk  == "kind" \in manifest.keys /\ manifest.f["kind"].t = "string"
        meta == IF "metadata" \in manifest.keys /\ manifest.f["metadata"].t = "map"
                THEN manifest.f["metadata"] ELSE Map({}, EmptyMap)
        nOk  == "name" \in meta.keys /\ meta.f["name"].t = "string"
    IN /\ entry.kind = <<"*">> \/ (kOk /\ manifest.f["kind"].s = entry.kind)
       /\ entry.name = <<"*">> \/ (nOk /\ meta.f["name"].s = entry.name)

\* parseAndApplyManifestPatches: the patched manifests, or the error.  An
\* entry with an empty value deletes, any other sets the parsed value.
parseAndApplyManifestPatches(entry, manifests) ==
    IF ~entry.valid
    THEN [error |-> "patch-manifests entry is invalid", manifests |-> <<>>]
    ELSE [error |-> "",
          manifests |->
              [i \in 1..Len(manifests) |->
                  IF PatchSelects(entry, manifests[i])
                  THEN OverridePathInMap(manifests[i], entry.path, entry.value = <<>>,
                                         Str(entry.value))
                  ELSE manifests[i]]]

RECURSIVE PatchesLoop(_, _, _)
\* One turn of the loop over the patch entries: r is what
\* parseAndApplyManifestPatches returned for the i-th entry.
AfterPatch(patches, i, r) ==
    IF r.error # "" THEN r ELSE PatchesLoop(patches, i + 1, r.manifests)

PatchesLoop(patches, i, manifests) ==
    IF i > Len(patches) THEN [error |-> "", manifests |-> manifests]
    ELSE AfterPatch(patches, i, parseAndApplyManifestPatches(patches[i], manifests))

\* The manifests of the resources, in the order of their uids.
ResourceManifests(state) ==
    LET uids == GetSortedResourceUids(state.Resources)
    IN Concat([i \in 1..Len(uids) |-> state.Resources[uids[i]].Manifests])

\* The scan of the manifests of the resources.
ScanResourceManifests(aux) ==
    IF \E i \in 1..Len(aux) : FindFirstUnresolvedSecretRef(<<>>, aux[i])
    THEN [error |-> "unresolved secret ref in manifest", manifests |-> <<>>]
    ELSE [error |-> "", manifests |-> aux]

RECURSIVE WorkloadsLoop(_, _, _, _, _)
\* One turn of the loop over state.Workloads: converted is what
\* ConvertWorkload returned for the i-th workload ranged over.
AddWorkload(state, workloadOrder, variableOrder, i, manifests, converted) ==
    IF converted.outcome = "error"
    THEN [error |-> "failed to convert", manifests |-> <<>>]
    ELSE IF converted.outcome = "panic"
    THEN [error |-> "panic", manifests |-> <<>>]
    ELSE IF \E j \in 1..Len(converted.manifests) :
                FindFirstUnresolvedSecretRef(<<>>, converted.manifests[j])
    THEN [error |-> "unresolved secret ref in manifest", manifests |-> <<>>]
    ELSE WorkloadsLoop(state, workloadOrder, variableOrder, i + 1,
                       manifests \o converted.manifests)

\* The loop over state.Workloads: workloadOrder is the order in which Go
\* ranges over that map in this run, variableOrder the same for the
\* variables of each workload.
WorkloadsLoop(state, workloadOrder, variableOrder, i, manifests) ==
    IF i > Len(workloadOrder) THEN [error |-> "", manifests |-> manifests]
    ELSE AddWorkload(state, workloadOrder, variableOrder, i, manifests,
                     ConvertWorkload(state, workloadOrder[i], variableOrder[workloadOrder[i]]))

\* The manifests of the workloads, appended to those of the resources.
ConvertWorkloads(state, workloadOrder, variableOrder, scanned) ==
    IF scanned.error # "" THEN scanned
    ELSE WorkloadsLoop(state, workloadOrder, variableOrder, 1, scanned.manifests)

\* The --patch-manifests entries, applied in their order.
PatchManifests(patches, converted) ==
    IF converted.error # "" THEN converted
    ELSE PatchesLoop(patches, 1, converted.manifests)

\* The --output flag: an empty one is an error.
CheckOutput(v, patched) ==
    IF patched.error # "" THEN patched
    ELSE IF v = "" THEN [error |-> "no output file specified", manifests |-> <<>>]
    ELSE patched

\* The manifests buffer of a run up to the choice of the output: the
\* manifests of the resources after their scan, the manifests of the
\* workloads after theirs, then the patches, then the --output flag.
OutputManifests(state, workloadOrder, variableOrder, patches, v) ==
    CheckOutput(v,
        PatchManifests(patches,
            ConvertWorkloads(state, workloadOrder, variableOrder,
                ScanResourceManifests(ResourceManifests(state)))))

\* The YAML stream written: every manifest after a "---" line.
EncodeManifests(manifests) == [i \in 1..Len(manifests) |-> <<"---", manifests[i]>>]

\* Every order of the elements of a set.
Orders(S) == {o \in [1..Cardinality(S) -> S] : Range(o) = S}

(***************************************************************************)
(* The inputs of the model's runs.                                         *)
(***************************************************************************)
MaxWorkloads == 2

Guids == {"guid-1", "guid-2"}

NoVariables == [k \in {} |-> <<>>]

NoResources == [r \in {} |-> ResourceDecl("", Nil, Nil)]

ScoreFiles ==
    {ScoreFile("w0", FALSE, NoVariables, NoResources),
     ScoreFile("w1", TRUE, [k \in {<<"K">>} |-> EncodeSecretReference(<<"a">>, <<"b">>)],
               [r \in {"b"} |-> ResourceDecl("dns", Ptr(<<"fast">>), Nil)]),
     ScoreFile("w2", TRUE,
               [k \in {<<"K">>} |-> <<"a">> \o EncodeSecretReference(<<"a">>, <<"b">>)],
               [r \in {"d"} |-> ResourceDecl("dns", Nil, Ptr(<<"shared">>))]),
     ScoreFile("w3", TRUE, [k \in {<<"K">>} |-> magicPrefix \o <<"a">> \o magicSuffix],
               NoResources)}

\* A provisioner whose manifest holds an opening sentinel and no closing one.
ReturnsUnterminated ==
    [fails |-> FALSE,
     output |-> ProvisionOutput(NilMap, NilMap, NilMap,
                                <<ConfigMap("leak", magicPrefix \o <<"a">>)>>)]

\* A provisioner whose manifest holds an encoded secret reference.
ReturnsReference ==
    [fails |-> FALSE,
     output |-> ProvisionOutput(NilMap, NilMap, NilMap,
                                <<ConfigMap("ref", EncodeSecretReference(<<"a">>, <<"b">>))>>)]

GenRegistries ==
    {<<>>,
     <<Provisioner("template://one", "dns", Nil, Nil, ReturnsSome)>>,
     <<Provisioner("template://one", "dns", Nil, Nil, ReturnsUnterminated)>>,
     <<Provisioner("template://one", "dns", Nil, Nil, ReturnsReference)>>,
     <<Provisioner("template://one", "dns", Ptr(<<"fast">>), Nil, ReturnsError),
       Provisioner("template://two", "dns", Nil, Nil, ReturnsNothing)>>}

GenPatches ==
    {<<>>,
     <<PatchEntry(TRUE, <<"Deployment">>, <<"*">>, <<"metadata", "note">>,
                  EncodeSecretReference(<<"a">>, <<"b">>))>>,
     <<PatchEntry(FALSE, <<>>, <<>>, <<>>, <<>>)>>}

GenOutputs == {"manifests.yaml", "-", ""}

GenInputs ==
    [args     : {a \in SUBSET ScoreFiles : Cardinality(a) <= MaxWorkloads},
     registry : GenRegistries,
     patches  : GenPatches,
     output   : GenOutputs]

GenPaths ==
    {StateFileName, StateTempName, OutputName("manifests.yaml"), OutputTempName("manifests.yaml")}

(***************************************************************************)
(* The generate specification: one command line, run again and again in    *)
(* one directory.  gPc is the position of the running command, gMem what   *)
(* it holds in memory, gFs the files; gRun records the run that is going   *)
(* on or has just ended, gPrev the last run before it that succeeded.      *)
(***************************************************************************)
ManifestsFile == OutputName("manifests.yaml")

NoProvisioning == [error |-> NoError, state |-> EmptyState, calls |-> <<>>]

NoMemory == [prov |-> NoProvisioning, out |-> <<>>]

NoRun ==
    [outcome |-> "none", stage |-> "", error |-> "", start |-> Absent, startOut |-> Absent,
     out |-> <<>>, state |-> EmptyState]

NoPrevious == [ok |-> FALSE, out |-> <<>>, stateAfter |-> Absent]

\* The resources a run will prime: those declared and not yet in the state.
UidsToPrime(fs, in) ==
    LET sd == LoadStateDirectory(fs) IN
    IF sd.error # "" \/ \E f \in in.args : ~f.valid THEN {}
    ELSE LET state == WithWorkloads(sd.state, in.args)
         IN DeclaredUids(state) \ DOMAIN state.Resources

\* Lines 79 to 171 of the command: the state is loaded, the score files are
\* added to it, its resources are primed and provisioned, all in memory.
RunToProvisioning(fs, in, guids) ==
    LET sd == LoadStateDirectory(fs) IN
    IF sd.error # ""
    THEN [stage |-> "load", error |-> sd.error, prov |-> NoProvisioning]
    ELSE IF \E f \in in.args : ~f.valid
    THEN [stage |-> "load", error |-> "invalid score file", prov |-> NoProvisioning]
    ELSE LET state == WithWorkloads(sd.state, in.args) IN
         IF DOMAIN state.Workloads = {}
         THEN [stage |-> "load", error |-> "Project is empty", prov |-> NoProvisioning]
         ELSE LET prov == ProvisionResources(WithPrimedResources(state, guids), in.registry)
              IN IF prov.error.kind # "none"
                 THEN [stage |-> "provision", error |-> prov.error.kind, prov |-> prov]
                 ELSE [stage |-> "provision", error |-> "", prov |-> prov]

\* The record of a run at its start.
Started ==
    [NoRun EXCEPT !.outcome = "running", !.start = gFs[StateFileName],
                  !.startOut = gFs[ManifestsFile]]

\* The last successful run, as a run that starts sees it.
Previous ==
    IF gRun.outcome = "ok"
    THEN [ok |-> TRUE, out |-> gRun.out, stateAfter |-> gFs[StateFileName]]
    ELSE gPrev

\* The run ends with an error.
Failed(stage, error) ==
    /\ gRun' = [gRun EXCEPT !.outcome = "error", !.stage = stage, !.error = error]
    /\ gPc' = "idle"
    /\ gMem' = NoMemory

GenInit ==
    /\ gIn \in GenInputs
    /\ gFs = [p \in GenPaths |->
                 IF p = StateFileName THEN Full(EncodeState(EmptyState)) ELSE Absent]
    /\ gPc = "idle"
    /\ gMem = NoMemory
    /\ gRun = NoRun
    /\ gPrev = NoPrevious
    /\ cIn = RawInput(<<>>)
    /\ cDec = NotRun
    /\ cScan = NotRun
    /\ cEnv = NotRun
    /\ pState = [Resources |-> EmptyMap, SharedState |-> EmptyMap]
    /\ pRegistry = <<>>
    /\ pRun = NotRun
    /\ ConvUnused

\* A run fails before it has provisioned its resources.
GenerateFails ==
    /\ gPc = "idle"
    /\ \E guids \in [UidsToPrime(gFs, gIn) -> Guids] :
          LET r == RunToProvisioning(gFs, gIn, guids) IN
          /\ r.error # ""
          /\ gRun' = [Started EXCEPT !.outcome = "error", !.stage = r.stage, !.error = r.error]
    /\ gPrev' = Previous
    /\ UNCHANGED <<gIn, gFs, gPc, gMem, codecVars, provVars, convVars>>

\* A run provisions its resources.
GenerateProvisions ==
    /\ gPc = "idle"
    /\ \E guids \in [UidsToPrime(gFs, gIn) -> Guids] :
          LET r == RunToProvisioning(gFs, gIn, guids) IN
          /\ r.error = ""
          /\ gMem' = [prov |-> r.prov, out |-> <<>>]
          /\ gRun' = [Started EXCEPT !.state = r.prov.state]
    /\ gPrev' = Previous
    /\ gPc' = "provisioned"
    /\ UNCHANGED <<gIn, gFs, codecVars, provVars, convVars>>

\* Persist: os.WriteFile creates or truncates the temporary file ...
PersistBeginWrite ==
    /\ gPc = "provisioned"
    /\ gFs' = WriteFileBegin(gFs, StateTempName)
    /\ gPc' = "stateWriting"
    /\ UNCHANGED <<gIn, gMem, gRun, gPrev, codecVars, provVars, convVars>>

\* ... and writes the encoded state to it.
PersistEndWrite ==
    /\ gPc = "stateWriting"
    /\ gFs' = WriteFileEnd(gFs, StateTempName, EncodeState(gMem.prov.state))
    /\ gPc' = "stateWritten"
    /\ UNCHANGED <<gIn, gMem, gRun, gPrev, codecVars, provVars, convVars>>

\* Persist: the temporary file is moved over the state file.
PersistRename ==
    /\ gPc = "stateWritten"
    /\ gFs' = Rename(gFs, StateTempName, StateFileName)
    /\ gPc' = "persisted"
    /\ UNCHANGED <<gIn, gMem, gRun, gPrev, codecVars, provVars, convVars>>

\* Persist returns an error: the directory, the write or the move failed.
PersistFails ==
    /\ gPc \in {"provisioned", "stateWriting", "stateWritten"}
    /\ Failed("persist", "failed to persist state file")
    /\ UNCHANGED <<gIn, gFs, gPrev, codecVars, provVars, convVars>>

\* The manifests of the run cannot be built.
ManifestsFail ==
    /\ gPc = "persisted"
    /\ \E workloadOrder \in Orders(DOMAIN gMem.prov.state.Workloads) :
          \E variableOrder \in [DOMAIN gMem.prov.state.Workloads -> Orders({<<"K">>})] :
             LET r == OutputManifests(gMem.prov.state, workloadOrder, variableOrder,
                                      gIn.patches, gIn.output)
             IN /\ r.error # ""
                /\ Failed("manifests", r.error)
    /\ UNCHANGED <<gIn, gFs, gPrev, codecVars, provVars, convVars>>

\* The manifests are built and, --output being "-", printed.
ManifestsPrinted ==
    /\ gPc = "persisted"
    /\ gIn.output = "-"
    /\ \E workloadOrder \in Orders(DOMAIN gMem.prov.state.Workloads) :
          \E variableOrder \in [DOMAIN gMem.prov.state.Workloads -> Orders({<<"K">>})] :
             LET r == OutputManifests(gMem.prov.state, workloadOrder, variableOrder,
                                      gIn.patches, gIn.output)
             IN /\ r.error = ""
                /\ gRun' = [gRun EXCEPT !.outcome = "ok", !.out = EncodeManifests(r.manifests)]
    /\ gPc' = "idle"
    /\ gMem' = NoMemory
    /\ UNCHANGED <<gIn, gFs, gPrev, codecVars, provVars, convVars>>

\* The manifests are built and encoded for the output file.
ManifestsBuilt ==
    /\ gPc = "persisted"
    /\ gIn.output # "-"
    /\ \E workloadOrder \in Orders(DOMAIN gMem.prov.state.Workloads) :
          \E variableOrder \in [DOMAIN gMem.prov.state.Workloads -> Orders({<<"K">>})] :
             LET r == OutputManifests(gMem.prov.state, workloadOrder, variableOrder,
                                      gIn.patches, gIn.output)
             IN /\ r.error = ""
                /\ gMem' = [gMem EXCEPT !.out = EncodeManifests(r.manifests)]
    /\ gPc' = "built"
    /\ UNCHANGED <<gIn, gFs, gRun, gPrev, codecVars, provVars, convVars>>

\* os.WriteFile creates or truncates the temporary output file ...
OutputBeginWrite ==
    /\ gPc = "built"
    /\ gFs' = WriteFileBegin(gFs, OutputTempName(gIn.output))
    /\ gPc' = "outputWriting"
    /\ UNCHANGED <<gIn, gMem, gRun, gPrev, codecVars, provVars, convVars>>

\* ... and writes the manifests to it.
OutputEndWrite ==
    /\ gPc = "outputWriting"
    /\ gFs' = WriteFileEnd(gFs, OutputTempName(gIn.output), gMem.out)
    /\ gPc' = "outputWritten"
    /\ UNCHANGED <<gIn, gMem, gRun, gPrev, codecVars, provVars, convVars>>

\* The temporary output file is renamed to the output file: the run is done.
OutputRename ==
    /\ gPc = "outputWritten"
    /\ gFs' = Rename(gFs, OutputTempName(gIn.output), OutputName(gIn.output))
    /\ gRun' = [gRun EXCEPT !.outcome = "ok", !.out = gMem.out]
    /\ gPc' = "idle"
    /\ gMem' = NoMemory
    /\ UNCHANGED <<gIn, gPrev, codecVars, provVars, convVars>>

\* The write or the rename of the output file fails.
OutputFails ==
    /\ gPc \in {"built", "outputWriting", "outputWritten"}
    /\ Failed("output", "failed to write output file")
    /\ UNCHANGED <<gIn, gFs, gPrev, codecVars, provVars, convVars>>

\* The process dies: what it held in memory is lost, the files stay.
Crash ==
    /\ gPc # "idle"
    /\ gRun' = [gRun EXCEPT !.outcome = "crashed"]
    /\ gPc' = "idle"
    /\ gMem' = NoMemory
    /\ UNCHANGED <<gIn, gFs, gPrev, codecVars, provVars, convVars>>

GenNext ==
    \/ GenerateFails
    \/ GenerateProvisions
    \/ PersistBeginWrite
    \/ PersistEndWrite
    \/ PersistRename
    \/ PersistFails
    \/ ManifestsFail
    \/ ManifestsPrinted
    \/ ManifestsBuilt
    \/ OutputBeginWrite
    \/ OutputEndWrite
    \/ OutputRename
    \/ OutputFails
    \/ Crash

SpecGen == GenInit /\ [][GenNext]_vars

(***************************************************************************)
(* Properties of the generate command.                                     *)
(***************************************************************************)
\* C1: when generate runs twice on unchanged inputs, the second run starting
\* from the state directory as the first run left it, the manifest output of
\* the second run is the manifest output of the first, the order of the
\* manifests of several workloads included.
C1_SecondRunSameOutput ==
    (gRun.outcome = "ok" /\ gPrev.ok /\ gRun.start = gPrev.stateAfter)
        => gRun.out = gPrev.out

\* C2 as stated: after a generate that ended with an error, whatever the
\* step that raised it, state.yaml is what it was before the run.
C2_FailedGenerateLeavesStateFile ==
    gRun.outcome = "error" => gFs[StateFileName] = gRun.start

\* C2 as the code has it: a generate that ended with an error has left the
\* manifests file as it was; it has left state.yaml as it was when the error
\* came up to and including the persisting of the state, and has replaced
\* state.yaml with the newly provisioned state when the error came later
\* (conversion, scan, patching, output).
C2_FailedGenerateBeforePersist ==
    gRun.outcome = "error" =>
        /\ gFs[ManifestsFile] = gRun.startOut
        /\ gRun.stage \in {"load", "provision", "persist"} => gFs[StateFileName] = gRun.start
        /\ gRun.stage \in {"manifests", "output"} =>
               gFs[StateFileName] = Full(EncodeState(gRun.state))

\* A run whose Persist failed after the new state, different from the one
\* on disk, was written to the temporary file.
C2_Witness ==
    /\ gRun.outcome = "error"
    /\ gRun.stage = "persist"
    /\ gFs[StateTempName] = Full(EncodeState(gRun.state))
    /\ gFs[StateFileName] # Full(EncodeState(gRun.state))

\* Every resource of the provisioned state went through a provisioner that
\* succeeded.
AllProvisionersSucceeded(prov) ==
    /\ prov.error.kind = "none"
    /\ \A u \in DOMAIN prov.state.Resources :
          \E i \in 1..Len(prov.calls) : prov.calls[i].uid = u /\ ~prov.calls[i].failed

\* C3: whatever step is taken, a crash included, state.yaml and the manifests
\* file are never left incomplete; state.yaml changes only to the complete
\* state a run has provisioned with every provisioner succeeding, and the
\* manifests file only to the complete manifests of the run.
C3_FilesReplacedAtomically ==
    [][/\ gFs'[StateFileName] # Partial
       /\ gFs'[ManifestsFile] # Partial
       /\ gFs'[StateFileName] # gFs[StateFileName] =>
              /\ gFs'[StateFileName] = Full(EncodeState(gMem.prov.state))
              /\ AllProvisionersSucceeded(gMem.prov)
       /\ gFs'[ManifestsFile] # gFs[ManifestsFile] =>
              gFs'[ManifestsFile] = Full(gMem.out)]_vars

\* A run has crashed while it was writing the state: the temporary file is
\* incomplete and state.yaml is what it was before the run.
C3_Witness ==
    /\ gRun.outcome = "crashed"
    /\ gFs[StateTempName] = Partial
    /\ gFs[StateFileName] = gRun.start
    /\ gFs[StateFileName] # Full(EncodeState(EmptyState))

RECURSIVE HasOpeningSentinel(_)
\* Some string of the value, at any depth, contains the opening sentinel.
HasOpeningSentinel(v) ==
    CASE v.t = "string" -> Index(v.s, magicPrefix) >= 0
      [] v.t = "map"    -> \E k \in v.keys : HasOpeningSentinel(v.f[k])
      [] v.t = "list"   -> \E i \in 1..Len(v.l) : HasOpeningSentinel(v.l[i])
      [] OTHER          -> FALSE

\* C7: no manifest of the manifests file holds the opening sentinel in a
\* string at any depth.
C7_NoOpeningSentinelWritten ==
    gFs[ManifestsFile] \notin {Absent, Partial} =>
        \A i \in 1..Len(gFs[ManifestsFile][2]) :
            ~HasOpeningSentinel(gFs[ManifestsFile][2][i][2])

(***************************************************************************)
(* The conversion specification: one input of one of the converter's       *)
(* functions, and that function applied to it.                             *)
(*                                                                         *)
(* Inputs of convertContainerVariables: a map of user variables.           *)
(***************************************************************************)
MaxVariables == 2

\* Names of user variables: upper case, lower case, with a digit, with a
\* leading underscore.
VariableNames == {<<"K">>, <<"a">>, <<"a", "0">>, <<"_", "K">>}

\* Values after substitution: plain, one reference, a reference in text,
\* two references.
VariableValues ==
    {<<"a">>,
     EncodeSecretReference(<<"a">>, <<"b">>),
     <<"a">> \o EncodeSecretReference(<<"a">>, <<"b">>),
     EncodeSecretReference(<<"a">>, <<"b">>) \o EncodeSecretReference(<<"b">>, <<"b">>)}

VariablesInputs ==
    {[op |-> "variables", variables |-> v] :
        v \in UNION {[names -> VariableValues] :
                        names \in {n \in SUBSET VariableNames : Cardinality(n) <= MaxVariables}}}

\* convertContainerVariables on the input, for one order of Go's range over
\* the map.
ConvertVariables ==
    /\ xIn.op = "variables"
    /\ xOut = NotRun
    /\ \E order \in Orders(DOMAIN xIn.variables) :
          xOut' = [run |-> TRUE, out |-> convertContainerVariables(xIn.variables, order)]
    /\ UNCHANGED <<xIn, codecVars, provVars, genVars>>

(***************************************************************************)
(* crypto/sha256, as convertContainerFile uses it for the name of the      *)
(* volume of a file.  A word of 32 bits is written as the pair of its      *)
(* upper and its lower 16 bits.                                            *)
(***************************************************************************)
RECURSIVE And(_, _, _)
\* a & b on numbers of the given count of bits.
And(a, b, bits) ==
    IF bits = 0 THEN 0
    ELSE (a % 2) * (b % 2) + 2 * And(a \div 2, b \div 2, bits - 1)

Xor32(a, b) == <<Xor(a[1], b[1], 16), Xor(a[2], b[2], 16)>>

And32(a, b) == <<And(a[1], b[1], 16), And(a[2], b[2], 16)>>

Not32(a) == <<65535 - a[1], 65535 - a[2]>>

\* a + b on words of 32 bits.
Add32(a, b) ==
    <<(a[1] + b[1] + ((a[2] + b[2]) \div 65536)) % 65536, (a[2] + b[2]) % 65536>>

RECURSIVE RotateRight32(_, _)
\* bits.RotateLeft32(x, -n).
RotateRight32(a, n) ==
    IF n >= 16 THEN RotateRight32(<<a[2], a[1]>>, n - 16)
    ELSE <<(a[1] \div 2^n) + (a[2] % 2^n) * 2^(16 - n),
           (a[2] \div 2^n) + (a[1] % 2^n) * 2^(16 - n)>>

\* x >> n for n below 16.
ShiftRight32(a, n) ==
    <<a[1] \div 2^n, (a[2] \div 2^n) + (a[1] % 2^n) * 2^(16 - n)>>

\* The round constants of SHA-256.
sha256K ==
    << <<17034, 12184>>, <<28983, 17553>>, <<46528, 64463>>, <<59829, 56229>>,
       <<14678, 49755>>, <<23025, 4593>>, <<37439, 33444>>, <<43804, 24277>>,
       <<55303, 43672>>, <<4739, 23297>>, <<9265, 34238>>, <<21772, 32195>>,
       <<29374, 23924>>, <<32990, 45566>>, <<39900, 1703>>, <<49563, 61812>>,
       <<58523, 27073>>, <<61374, 18310>>, <<4033, 40390>>, <<9228, 41420>>,
       <<11753, 11375>>, <<19060, 33962>>, <<23728, 43484>>, <<30457, 35034>>,
       <<38974, 20818>>, <<43057, 50797>>, <<45059, 10184>>, <<48985, 32711>>,
       <<50912, 3059>>, <<54695, 37191>>, <<1738, 25425>>, <<5161, 10599>>,
       <<10167, 2693>>, <<11803, 8504>>, <<19756, 28156>>, <<21304, 3347>>,
       <<25866, 29524>>, <<30314, 2747>>, <<33218, 51502>>, <<37490, 11397>>,
       <<41663, 59553>>, <<43034, 26187>>, <<49739, 35696>>, <<51052, 20899>>,
       <<53650, 59417>>, <<54937, 1572>>, <<62478, 13701>>, <<4202, 41072>>,
       <<6564, 49430>>, <<7735, 27656>>, <<10056, 30540>>, <<13488, 48309>>,
       <<14620, 3251>>, <<20184, 43594>>, <<23452, 51791>>, <<26670, 28659>>,
       <<29839, 33518>>, <<30885, 25455>>, <<33992, 30740>>, <<36039, 520>>,
       <<37054, 65530>>, <<42064, 27883>>, <<48889, 41975>>, <<50801, 30962>> >>

\* The initial hash value of SHA-256.
sha256Init ==
    << <<27145, 58983>>, <<47975, 44677>>, <<15470, 62322>>, <<42319, 62778>>,
       <<20750, 21119>>, <<39685, 26764>>, <<8067, 55723>>, <<23520, 52505>> >>

\* The word of four bytes of p from index i, the first byte the highest.
BigEndianWord(p, i) == <<p[i] * 256 + p[i + 1], p[i + 2] * 256 + p[i + 3]>>

\* The next word of the message schedule: v1 and t1 are the words two and
\* fifteen places back, v2 and t2 those seven and sixteen places back.
ScheduledWord(v1, t1, v2, t2) ==
    Add32(Add32(Xor32(Xor32(RotateRight32(v1, 17), RotateRight32(v1, 19)),
                      ShiftRight32(v1, 10)),
                v2),
          Add32(Xor32(Xor32(RotateRight32(t1, 7), RotateRight32(t1, 18)),
                      ShiftRight32(t1, 3)),
                t2))

RECURSIVE Schedule(_)
\* The 64 words of the message schedule, from the 16 words of the block.
Schedule(w) ==
    IF Len(w) = 64 THEN w
    ELSE Schedule(Append(w, ScheduledWord(w[Len(w) - 1], w[Len(w) - 14],
                                          w[Len(w) - 6], w[Len(w) - 15])))

\* t1 and t2 of one round on the working variables a to h.
RoundT1(v, k, w) ==
    Add32(Add32(Add32(v[8],
                      Xor32(Xor32(RotateRight32(v[5], 6), RotateRight32(v[5], 11)),
                            RotateRight32(v[5], 25))),
                Xor32(And32(v[5], v[6]), And32(Not32(v[5]), v[7]))),
          Add32(k, w))

RoundT2(v) ==
    Add32(Xor32(Xor32(RotateRight32(v[1], 2), RotateRight32(v[1], 13)),
                RotateRight32(v[1], 22)),
          Xor32(Xor32(And32(v[1], v[2]), And32(v[1], v[3])), And32(v[2], v[3])))

Round(v, t1, t2) ==
    <<Add32(t1, t2), v[1], v[2], v[3], Add32(v[4], t1), v[5], v[6], v[7]>>

RECURSIVE Rounds(_, _, _)
\* The 64 rounds of a block from round i on.
Rounds(v, w, i) ==
    IF i > 64 \/ Len(v) # 8 THEN v
    ELSE Rounds(Round(v, RoundT1(v, sha256K[i], w[i]), RoundT2(v)), w, i + 1)

AddWorking(h, v) == <<Add32(h[1], v[1]), Add32(h[2], v[2]), Add32(h[3], v[3]),
                      Add32(h[4], v[4]), Add32(h[5], v[5]), Add32(h[6], v[6]),
                      Add32(h[7], v[7]), Add32(h[8], v[8])>>

\* The block function of SHA-256 on one chunk of 64 bytes.
Block(h, p) ==
    AddWorking(h, Rounds(h, Schedule(<<BigEndianWord(p, 1), BigEndianWord(p, 5),
                                       BigEndianWord(p, 9), BigEndianWord(p, 13),
                                       BigEndianWord(p, 17), BigEndianWord(p, 21),
                                       BigEndianWord(p, 25), BigEndianWord(p, 29),
                                       BigEndianWord(p, 33), BigEndianWord(p, 37),
                                       BigEndianWord(p, 41), BigEndianWord(p, 45),
                                       BigEndianWord(p, 49), BigEndianWord(p, 53),
                                       BigEndianWord(p, 57), BigEndianWord(p, 61)>>), 1))

RECURSIVE Blocks(_, _)
Blocks(h, p) ==
    IF p = <<>> THEN h
    ELSE Blocks(Block(h, SubSeq(p, 1, 64)), SubSeq(p, 65, Len(p)))

RECURSIVE Zeros(_)
Zeros(n) == IF n = 0 THEN <<>> ELSE <<0>> \o Zeros(n - 1)

\* The padding of a message of n bytes: the byte 0x80, zero bytes up to 56
\* modulo 64, and the count of bits as eight bytes, the highest first.
Padding(n) ==
    <<128>> \o Zeros((119 - (n % 64)) % 64)
            \o <<0, 0, 0, 0, (n \div 2097152) % 256, (n \div 8192) % 256,
                 (n \div 32) % 256, (n * 8) % 256>>

\* The four bytes of a word, the highest first.
WordBytes(a) == <<a[1] \div 256, a[1] % 256, a[2] \div 256, a[2] % 256>>

\* sha256.Sum256: the first eight bytes of the digest, which hold the five
\* that are used.
Sum256(data) ==
    LET h == Blocks(sha256Init, data \o Padding(Len(data)))
    IN WordBytes(h[1]) \o WordBytes(h[2])

hexDigits ==
    <<"0", "1", "2", "3", "4", "5", "6", "7", "8", "9", "a", "b", "c", "d", "e", "f">>

RECURSIVE Hex(_)
\* fmt.Sprintf("%x", bytes).
Hex(bytes) ==
    IF bytes = <<>> THEN <<>>
    ELSE <<hexDigits[(Head(bytes) \div 16) + 1], hexDigits[(Head(bytes) % 16) + 1]>>
            \o Hex(Tail(bytes))

RECURSIVE PathString(_)
\* The string of a target "/<dir>/<base>" given as the sequence of its
\* elements, the root first.
PathString(target) ==
    IF Len(target) <= 1 THEN target
    ELSE PathString(SubSeq(target, 1, Len(target) - 1))
            \o (IF Len(target) = 2 THEN <<>> ELSE <<"/">>) \o <<target[Len(target)]>>

\* fmt.Sprintf("%x", targetHash[:5]) with targetHash the SHA-256 of the
\* target.
HashOfTarget(target) == Hex(SubSeq(Sum256(Bytes(PathString(target))), 1, 5))

(***************************************************************************)
(* internal/convert/container_files.go                                     *)
(***************************************************************************)
\* The targets of the files of the model's workloads.
HashedTargets ==
    {<<"/", "a", "f">>, <<"/", "a", "e">>, <<"/", "b", "f">>, <<"/", "e", "f">>}

\* The hashes of these targets, computed once.
targetHashes == [target \in HashedTargets |-> HashOfTarget(target)]

\* The first five bytes of the SHA-256 of the target in hexadecimal.
TargetHash(target) ==
    IF target \in HashedTargets THEN targetHashes[target] ELSE HashOfTarget(target)

\* filepath.Dir and filepath.Base of a target "/<dir>/<base>" given as the
\* sequence of its elements.
Dir(target) == SubSeq(target, 1, Len(target) - 1)

Base(target) == target[Len(target)]

VolumeMount(name, mountPath, readOnly) ==
    [Name |-> name, MountPath |-> mountPath, ReadOnly |-> readOnly]

\* A key-to-path item of a ConfigMap or Secret volume.
KeyToPath(key, path) == [Key |-> key, Path |-> path]

\* A volume: source is "ConfigMap", "Secret", "Projected" or another kind;
\* ref is the name of the ConfigMap or Secret, items its items, sources the
\* projections of a projected volume.
Volume(name, source, ref, items, sources) ==
    [Name |-> name, source |-> source, ref |-> ref, items |-> items, sources |-> sources]

\* The ConfigMap of a file as convertContainerFile builds it: a kind, a
\* name and the content under the key "file", and no labels.
FileConfigMap(name, content) ==
    [Kind |-> "ConfigMap", Name |-> name, Labels |-> EmptyMap,
     BinaryData |-> [file |-> content]]

\* What convertContainerFile returns.
FileResult(err, mount, cfg, vol) == [err |-> err, mount |-> mount, cfg |-> cfg, vol |-> vol]

\* The Secret-backed volume of a file whose content is one reference.
SecretFileVolume(mount, target, refs) ==
    Volume(mount.Name, "Secret", refs[1].Name, <<KeyToPath(refs[1].Key, Base(target))>>, <<>>)

\* The end of convertContainerFile: the ConfigMap and its volume.
ConfigMapFile(mount, target, manifestPrefix, content) ==
    LET configMapName == manifestPrefix \o <<"file-">> \o TargetHash(target)
    IN FileResult("", mount, Ptr(FileConfigMap(configMapName, content)),
                  Ptr(Volume(mount.Name, "ConfigMap", configMapName,
                               <<KeyToPath(<<"file">>, Base(target))>>, <<>>)))

\* convertContainerFile once the content is decoded: d is what
\* DecodeSecretReferences returned for the substituted content.
FileOfDecoded(mount, target, manifestPrefix, stringContent, d) ==
    IF d.err
    THEN FileResult("content: failed to resolve secret", mount, Nil, Nil)
    ELSE IF Len(d.refs) > 0
    THEN IF Len(d.refs) = 1 /\ d.parts[1] = <<>> /\ d.parts[2] = <<>>
         THEN FileResult("", mount, Nil, Ptr(SecretFileVolume(mount, target, d.refs)))
         ELSE FileResult("content: contained a mix of secret references and raw content",
                         mount, Nil, Nil)
    ELSE ConfigMapFile(mount, target, manifestPrefix, stringContent)

\* convertContainerFile for a file given by its content, with no mode and
\* with expansion: stringContent is the content after substitution.
convertContainerFile(target, stringContent, manifestPrefix) ==
    FileOfDecoded(VolumeMount(<<"file-">> \o TargetHash(target), Dir(target), FALSE),
                  target, manifestPrefix, stringContent,
                  DecodeSecretReferences(stringContent))

FileInputs == {[op |-> "file", content |-> s] : s \in TokenStrings}

\* convertContainerFile on the input.
ConvertFile ==
    /\ xIn.op = "file"
    /\ xOut = NotRun
    /\ xOut' = [run |-> TRUE,
                out |-> convertContainerFile(<<"/", "e", "f">>, xIn.content,
                                             <<"w1", "-", "main", "-">>)]
    /\ UNCHANGED <<xIn, codecVars, provVars, genVars>>

(***************************************************************************)
(* internal/convert/container_volumes.go: collapseVolumeMounts             *)
(***************************************************************************)
volumeAndMount(vol, mount) == [Volume |-> vol, VolumeMount |-> mount]

\* slices.IndexFunc(volumes, name equal to the mount's): the first index, or
\* 0 for Go's -1.
IndexOfVolume(volumes, name) ==
    IF \E i \in 1..Len(volumes) : volumes[i].Name = name
    THEN CHOOSE i \in 1..Len(volumes) :
            /\ volumes[i].Name = name
            /\ \A j \in 1..(i - 1) : volumes[j].Name # name
    ELSE 0

\* groups[mountPath] = append(group, entry), or a new group of one entry.
AppendToGroup(groups, mountPath, entry) ==
    [p \in DOMAIN groups \cup {mountPath} |->
        IF p = mountPath
        THEN IF p \in DOMAIN groups THEN Append(groups[p], entry) ELSE <<entry>>
        ELSE groups[p]]

\* The body of the first loop for one mount whose volume has index volInd.
FilterMount(acc, volumes, mount, volInd) ==
    IF volInd > 0
    THEN IF volumes[volInd].source \in {"ConfigMap", "Secret"}
         THEN [acc EXCEPT !.groups =
                  AppendToGroup(@, mount.MountPath, volumeAndMount(volumes[volInd], mount))]
         ELSE [acc EXCEPT !.outputMounts = Append(@, mount),
                          !.outputVols = Append(@, volumes[volInd])]
    ELSE [acc EXCEPT !.outputMounts = Append(@, mount)]

RECURSIVE FilterMounts(_, _, _)
\* The first loop: the ConfigMap and Secret volumes are grouped by mount
\* path, the other mounts and volumes are output.
FilterMounts(acc, volumes, mounts) ==
    IF mounts = <<>> THEN acc
    ELSE FilterMounts(FilterMount(acc, volumes, Head(mounts),
                                  IndexOfVolume(volumes, Head(mounts).Name)),
                      volumes, Tail(mounts))

RECURSIVE DescendingMountPaths(_)
\* The mount paths from the greatest to the least.
DescendingMountPaths(paths) ==
    IF paths = {} THEN <<>>
    ELSE LET p == CHOOSE p \in paths : \A q \in paths : ~StringLess(p, q)
         IN <<p>> \o DescendingMountPaths(paths \ {p})

RECURSIVE orderedMountPaths(_)
\* slices.Sort of the mount paths of the groups.
orderedMountPaths(paths) ==
    IF paths = {} THEN <<>>
    ELSE LET p == CHOOSE p \in paths : \A q \in paths : ~StringLess(q, p)
         IN <<p>> \o orderedMountPaths(paths \ {p})

\* The projection of a ConfigMap or Secret volume.
VolumeProjection(vol) == [source |-> vol.source, ref |-> vol.ref, items |-> vol.items]

\* The projected volume of a group.
ProjectedVolume(group, projectedVolumeIndex) ==
    Volume(<<"proj-vol-", ToString(projectedVolumeIndex)>>, "Projected", <<>>, <<>>,
           [i \in 1..Len(group) |-> VolumeProjection(group[i].Volume)])

\* The body of the second loop for one group.
AddGroup(acc, mountPath, group) ==
    IF Len(group) = 1
    THEN [acc EXCEPT !.outputVols = Append(@, group[1].Volume),
                     !.outputMounts = Append(@, group[1].VolumeMount)]
    ELSE [acc EXCEPT !.outputVols = Append(@, ProjectedVolume(group, acc.projectedVolumeIndex)),
                     !.outputMounts =
                         Append(@, VolumeMount(<<"proj-vol-", ToString(acc.projectedVolumeIndex)>>,
                                               mountPath, TRUE)),
                     !.projectedVolumeIndex = @ + 1]

RECURSIVE AddGroups(_, _)
\* The second loop, over the ordered mount paths.
AddGroups(acc, paths) ==
    IF paths = <<>> THEN acc
    ELSE AddGroups(AddGroup(acc, Head(paths), acc.groups[Head(paths)]), Tail(paths))

\* The second phase on what the first one left.
AddAllGroups(acc) == AddGroups(acc, orderedMountPaths(DOMAIN acc.groups))

collapseVolumeMounts(volumes, mounts) ==
    AddAllGroups(FilterMounts([outputMounts |-> <<>>, outputVols |-> <<>>,
                               groups |-> EmptyMap, projectedVolumeIndex |-> 0],
                              volumes, mounts))

MaxMounts == 4

MountPaths == {<<"/", "a">>, <<"/", "b">>}

\* What a container's files and volumes come to: a ConfigMap, a Secret or
\* another volume, each with its mount.
MountKinds == {"ConfigMap", "Secret", "EmptyDir"}

MountEntries == [kind : MountKinds, path : MountPaths]

\* The volumes of a list of entries, named by their position.
EntryVolumes(entries) ==
    [i \in 1..Len(entries) |->
        Volume(<<"v", ToString(i)>>, entries[i].kind, <<"r", ToString(i)>>,
               <<KeyToPath(<<"file">>, "f")>>, <<>>)]

\* The mounts of a list of entries, after the mount of a volume claim,
\* which has no volume, when there is one.
EntryMounts(entries, claim) ==
    (IF claim THEN <<VolumeMount(<<"vol-", "0">>, <<"/", "a">>, FALSE)>> ELSE <<>>)
        \o [i \in 1..Len(entries) |-> VolumeMount(<<"v", ToString(i)>>, entries[i].path, FALSE)]

CollapseInputs ==
    {[op |-> "collapse", volumes |-> EntryVolumes(entries),
      mounts |-> EntryMounts(entries, claim)] :
        entries \in UNION {[1..n -> MountEntries] : n \in 0..MaxMounts},
        claim \in BOOLEAN}

\* collapseVolumeMounts on the input.
CollapseMounts ==
    /\ xIn.op = "collapse"
    /\ xOut = NotRun
    /\ xOut' = [run |-> TRUE, out |-> collapseVolumeMounts(xIn.volumes, xIn.mounts)]
    /\ UNCHANGED <<xIn, codecVars, provVars, genVars>>

(***************************************************************************)
(* internal/convert/workloads.go: ConvertWorkload for a workload of one    *)
(* container, with its volumes, files, service ports, kind annotation and  *)
(* converter binary.                                                       *)
(***************************************************************************)
\* What convertContainerVolume returns.
VolumeResult(err, mount, vol, claim) ==
    [err |-> err, mount |-> mount, vol |-> vol, claim |-> claim]

\* convertContainerVolume for a volume whose source resolves to a resource
\* of the state.  volume.outputs are the outputs of that resource as the
\* decoder reads them: under "source" the kind of coreV1.VolumeSource they
\* describe ("" for one without any field, whose Size() is 0), under
\* "claimSpec" the claim spec ("" for an empty one); any other key is an
\* unknown field, which the decoder refuses.
convertContainerVolume(index, volume) ==
    LET volName == <<"vol-", ToString(index)>>
        mount == VolumeMount(volName, volume.target, volume.readOnly)
    IN IF ~(DOMAIN volume.outputs \subseteq {"source", "claimSpec"})
       THEN VolumeResult("failed to convert resource outputs into a Kubernetes volume",
                         mount, Nil, Nil)
       ELSE IF ("claimSpec" \notin DOMAIN volume.outputs) = ("source" \notin DOMAIN volume.outputs)
       THEN VolumeResult("either 'source' or 'claimSpec' required", mount, Nil, Nil)
       ELSE IF "claimSpec" \in DOMAIN volume.outputs
       THEN IF volume.outputs["claimSpec"] = ""
            THEN VolumeResult("claimSpec is empty", mount, Nil, Nil)
            ELSE VolumeResult("", mount, Nil, Ptr([Name |-> volName]))
       ELSE IF volume.outputs["source"] = ""
       THEN VolumeResult("source is empty", mount, Nil, Nil)
       ELSE VolumeResult("", mount,
                         Ptr(Volume(volName, volume.outputs["source"], <<"r", ToString(index)>>,
                                    <<>>, <<>>)),
                         Nil)

\* A mutant of AddContainerVolume: the mount, the claim and the volume are
\* put before those of the volumes declared earlier.
PrependContainerVolume(acc, r) ==
    IF acc.err # "" THEN acc
    ELSE IF r.err # "" THEN [acc EXCEPT !.err = "volumes: failed to convert"]
    ELSE [acc EXCEPT !.mounts = <<r.mount>> \o @,
                     !.claims = IF ~r.claim.nil THEN <<r.claim.v>> \o @ ELSE @,
                     !.vols = IF r.claim.nil /\ ~r.vol.nil THEN <<r.vol.v>> \o @ ELSE @]

\* The body of the loop over container.Volumes, r being what
\* convertContainerVolume returned.
AddContainerVolume(acc, r) ==
    IF acc.err # "" THEN acc
    ELSE IF r.err # "" THEN [acc EXCEPT !.err = "volumes: failed to convert"]
    ELSE [acc EXCEPT !.mounts = Append(@, r.mount),
                     !.claims = IF ~r.claim.nil THEN Append(@, r.claim.v) ELSE @,
                     !.vols = IF r.claim.nil /\ ~r.vol.nil THEN Append(@, r.vol.v) ELSE @]

RECURSIVE ContainerVolumesLoop(_, _, _)
\* The loop over container.Volumes from index i (from 0, as Go counts).
ContainerVolumesLoop(acc, volumes, i) ==
    IF i >= Len(volumes) THEN acc
    ELSE ContainerVolumesLoop(
             AddContainerVolume(acc, convertContainerVolume(i, volumes[i + 1])),
             volumes, i + 1)

\* The body of the loop over container.Files, r being what
\* convertContainerFile returned.
AddContainerFile(acc, r) ==
    IF acc.err # "" THEN acc
    ELSE IF r.err # "" THEN [acc EXCEPT !.err = "files: failed to convert"]
    ELSE [acc EXCEPT !.mounts = Append(@, r.mount),
                     !.manifests = IF ~r.cfg.nil THEN Append(@, r.cfg.v) ELSE @,
                     !.vols = IF ~r.vol.nil THEN Append(@, r.vol.v) ELSE @]

RECURSIVE ContainerFilesLoop(_, _, _, _)
\* The loop over container.Files: a map from target to content.
ContainerFilesLoop(acc, files, order, prefix) ==
    IF order = <<>> THEN acc
    ELSE ContainerFilesLoop(
             AddContainerFile(acc, convertContainerFile(Head(order), files[Head(order)], prefix)),
             files, Tail(order), prefix)

\* The end of the loop over the containers: the collapsed volumes and
\* mounts of the container.
CollapsedContainer(acc, collapsed) ==
    [acc EXCEPT !.mounts = collapsed.outputMounts, !.vols = collapsed.outputVols]

\* The container "main" of the workload: its volumes, then its files, then
\* the collapse of its mounts.
ConvertContainer(acc) ==
    IF acc.err # "" THEN acc ELSE CollapsedContainer(acc, collapseVolumeMounts(acc.vols, acc.mounts))

\* The labels with the instance label left without the suffix.
LabelsWithoutSuffix(workloadName, instanceSuffix) ==
    [l \in {"app.kubernetes.io/name", "app.kubernetes.io/instance",
            "app.kubernetes.io/managed-by"} |->
        IF l = "app.kubernetes.io/managed-by" THEN <<"score-k8s">> ELSE <<workloadName>>]

commonLabels(workloadName, instanceSuffix) ==
    [l \in {"app.kubernetes.io/name", "app.kubernetes.io/instance",
            "app.kubernetes.io/managed-by"} |->
        CASE l = "app.kubernetes.io/name" -> <<workloadName>>
          [] l = "app.kubernetes.io/instance" -> <<workloadName, instanceSuffix>>
          [] OTHER -> <<"score-k8s">>]

\* strings.ToUpper on the protocols of the score specification.
ToUpper(s) == CASE s = "tcp" -> "TCP" [] s = "udp" -> "UDP" [] OTHER -> s

\* The coreV1.ServicePort of a declared port.
ServicePort(portName, port) ==
    [Name |-> portName,
     Port |-> port.Port,
     TargetPort |-> IF ~port.TargetPort.nil /\ port.TargetPort.v > 0
                    THEN port.TargetPort.v ELSE port.Port,
     Protocol |-> IF ~port.Protocol.nil /\ port.Protocol.v # ""
                  THEN ToUpper(port.Protocol.v) ELSE "TCP"]

\* portList, for one order of Go's range over spec.Service.Ports.
PortList(ports, order) == [i \in 1..Len(order) |-> ServicePort(order[i], ports[order[i]])]

\* A manifest of the converter.
Manifest(kind, name, labels, spec) ==
    [Kind |-> kind, Name |-> name, Labels |-> labels, Spec |-> spec]

ConverterInputs(workloadName, annotation, labels, acc, portList) ==
    [WorkloadName |-> workloadName,
     WorkloadAnnotations |-> annotation,
     PodTemplate |-> [Labels |-> labels, VolumeMounts |-> acc.mounts, Volumes |-> acc.vols],
     VolumeClaimTemplates |-> acc.claims,
     ServicePorts |-> portList]

\* The manifests of a kind ConvertInputsToManifest supports.
ManifestsOfKind(inputs, kind) ==
    LET selector == [l \in {"app.kubernetes.io/instance"} |-> inputs.PodTemplate.Labels[l]]
        headlessServiceName == <<inputs.WorkloadName, "-headless-svc">>
    IN IF kind = "Deployment"
       THEN <<Manifest("Deployment", <<inputs.WorkloadName>>, inputs.PodTemplate.Labels,
                       [Selector |-> selector, Template |-> inputs.PodTemplate])>>
       ELSE <<Manifest("Service", headlessServiceName, inputs.PodTemplate.Labels,
                       [Selector |-> selector, ClusterIP |-> "None",
                        Ports |-> <<[Name |-> "default", Port |-> 99, TargetPort |-> 99,
                                     Protocol |-> ""]>>]),
              Manifest("StatefulSet", <<inputs.WorkloadName>>, inputs.PodTemplate.Labels,
                       [Selector |-> selector, ServiceName |-> headlessServiceName,
                        Template |-> inputs.PodTemplate,
                        VolumeClaimTemplates |-> inputs.VolumeClaimTemplates])>>

\* ConvertInputsToManifest: the kind annotation of the workload is nil
\* (absent, or not a string) or a string.
ConvertInputsToManifest(inputs) ==
    IF ~inputs.WorkloadAnnotations.nil /\ inputs.WorkloadAnnotations.v # ""
    THEN IF inputs.WorkloadAnnotations.v \notin {"Deployment", "StatefulSet"}
         THEN [err |-> "unsupported workload kind", manifests |-> <<>>]
         ELSE [err |-> "", manifests |-> ManifestsOfKind(inputs, inputs.WorkloadAnnotations.v)]
    ELSE [err |-> "", manifests |-> ManifestsOfKind(inputs, "Deployment")]

\* ConvertRawInputsToRawManifests: the inputs are read from their JSON and
\* the manifests of ConvertInputsToManifest are written as a JSON array.
ConvertRawInputsToRawManifests(rawInputs) == ConvertInputsToManifest(rawInputs)

\* yaml.NewYAMLOrJSONDecoder(..).Decode(&convertedManifests), with
\* convertedManifests a []machineryMeta.Object: machineryMeta.Object is an
\* interface with methods, into which no JSON object can be decoded, so
\* that only the empty array is decoded without an error.
DecodeManifests(rawManifests) ==
    IF rawManifests = <<>> THEN [err |-> "", manifests |-> <<>>]
    ELSE [err |-> "failed to decode convert outputs into manifests", manifests |-> <<>>]

\* The manifests decoded are added to those of the files.
AppendDecoded(manifests, decoded) ==
    IF decoded.err # "" THEN [err |-> decoded.err, manifests |-> <<>>, stdin |-> <<>>]
    ELSE [err |-> "", manifests |-> manifests \o decoded.manifests, stdin |-> <<>>]

\* The end of ConvertWorkload without a converter binary: the manifests of
\* ConvertRawInputsToRawManifests are decoded and added to those of the
\* files.
AppendConverted(manifests, converted) ==
    IF converted.err # "" THEN [err |-> converted.err, manifests |-> <<>>, stdin |-> <<>>]
    ELSE AppendDecoded(manifests, DecodeManifests(converted.manifests))

\* The end of ConvertWorkload: the converter binary is run with the inputs
\* on its standard input, and what it prints is kept in rawManifests and
\* not read; or the inputs are converted here.  stdin holds the inputs the
\* binary was given.
ConvertedBy(converterBinary, manifests, converterInputs) ==
    IF converterBinary.set
    THEN IF converterBinary.fails
         THEN [err |-> "failed to run converter binary", manifests |-> <<>>,
               stdin |-> <<converterInputs>>]
         ELSE [err |-> "", manifests |-> manifests, stdin |-> <<converterInputs>>]
    ELSE AppendConverted(manifests, ConvertRawInputsToRawManifests(converterInputs))

\* ConvertWorkload once the container is converted.
ConvertedWorkload(w, acc, portOrder) ==
    IF acc.err # "" THEN [err |-> acc.err, manifests |-> <<>>, stdin |-> <<>>]
    ELSE ConvertedBy(w.converterBinary, acc.manifests,
                     ConverterInputs(w.name, w.kind, commonLabels(w.name, w.instanceSuffix),
                                     acc, PortList(w.ports, portOrder)))

\* ConvertWorkload on a workload of one container, for one order of the
\* range over its files and one over its service ports.
ConvertWorkloadSpec(w, fileOrder, portOrder) ==
    ConvertedWorkload(w,
        ConvertContainer(
            ContainerFilesLoop(
                ContainerVolumesLoop([err |-> "", mounts |-> <<>>, vols |-> <<>>,
                                      claims |-> <<>>, manifests |-> <<>>],
                                     w.volumes, 0),
                w.files, fileOrder, <<w.name, "-", "main", "-">>)),
        portOrder)

\* A declared volume: its target, its readOnly flag and the outputs of the
\* resource its source resolves to.
ContainerVolume(target, readOnly, outputs) ==
    [target |-> target, readOnly |-> readOnly, outputs |-> outputs]

\* A volume of a resource whose outputs hold a source of the kind.
SourceVolume(target, kind) ==
    ContainerVolume(target, FALSE, [k \in {"source"} |-> kind])

\* A volume of a resource whose outputs hold a claimSpec.
ClaimVolume(target, claimSpec) ==
    ContainerVolume(target, TRUE, [k \in {"claimSpec"} |-> claimSpec])

\* The volume lists whose conversion fails: outputs without source and
\* claimSpec, with both, with an empty one, or with an unknown field.
FailingVolumeLists ==
    {<<ContainerVolume(<<"/", "a">>, FALSE, EmptyMap)>>,
     <<ContainerVolume(<<"/", "a">>, FALSE,
                       [k \in {"source", "claimSpec"} |-> IF k = "source" THEN "EmptyDir" ELSE "spec"])>>,
     <<SourceVolume(<<"/", "a">>, "")>>,
     <<ClaimVolume(<<"/", "a">>, "")>>,
     <<SourceVolume(<<"/", "a">>, "EmptyDir"),
       ContainerVolume(<<"/", "b">>, FALSE, [k \in {"source", "size"} |-> "EmptyDir"])>>}

\* The volumes of the container: none, volumes of an emptyDir, a configMap
\* or a secret source and volume claims, at one mount path or at two, and
\* the lists whose conversion fails.
VolumeLists ==
    {<<>>,
     <<SourceVolume(<<"/", "a">>, "EmptyDir")>>,
     <<ClaimVolume(<<"/", "a">>, "spec")>>,
     <<SourceVolume(<<"/", "a">>, "ConfigMap")>>,
     <<SourceVolume(<<"/", "a">>, "EmptyDir"), ClaimVolume(<<"/", "b">>, "spec")>>,
     <<ClaimVolume(<<"/", "b">>, "spec"), SourceVolume(<<"/", "a">>, "EmptyDir")>>,
     <<SourceVolume(<<"/", "b">>, "ConfigMap"), SourceVolume(<<"/", "a">>, "EmptyDir")>>,
     <<SourceVolume(<<"/", "b">>, "Secret"), SourceVolume(<<"/", "a">>, "ConfigMap")>>,
     <<SourceVolume(<<"/", "a">>, "ConfigMap"), SourceVolume(<<"/", "a">>, "Secret")>>}
      \cup FailingVolumeLists

\* The kind annotation: absent, empty, the two kinds, and another value.
KindAnnotations == {[nil |-> TRUE, v |-> ""], Ptr(""), Ptr("Deployment"), Ptr("StatefulSet"), Ptr("Job")}

\* Declared ports: with defaults, with a target port and a protocol, with
\* a zero target port and an empty protocol.
PortDecls ==
    {[Port |-> 80, TargetPort |-> [nil |-> TRUE, v |-> 0], Protocol |-> [nil |-> TRUE, v |-> ""]],
     [Port |-> 80, TargetPort |-> [nil |-> FALSE, v |-> 8080],
      Protocol |-> [nil |-> FALSE, v |-> "udp"]],
     [Port |-> 81, TargetPort |-> [nil |-> FALSE, v |-> 0],
      Protocol |-> [nil |-> FALSE, v |-> ""]]}

\* The declared ports: none, "web" alone, "admin" alone with the defaults,
\* or both.
PortMaps ==
    {EmptyMap}
      \cup {[n \in {"web"} |-> d] : d \in PortDecls}
      \cup {[n \in {"admin"} |-> d] : d \in {d \in PortDecls : d.TargetPort.nil}}
      \cup {[n \in {"web", "admin"} |->
                IF n = "web" THEN d ELSE CHOOSE a \in PortDecls : a.TargetPort.nil] :
                d \in PortDecls}

\* The files of the container: none, plain content at one target, or
\* content that mixes raw content with a secret reference, which
\* convertContainerFile refuses.
FileMaps ==
    {EmptyMap, [t \in {<<"/", "a", "f">>} |-> <<"a">>],
     [t \in {<<"/", "a", "f">>} |-> <<"a">> \o EncodeSecretReference(<<"a">>, <<"b">>)]}

\* The converter binary: none, one that fails, one that prints no manifest
\* and one that prints a manifest.
ConverterBinaries ==
    {[set |-> FALSE, fails |-> FALSE, stdout |-> <<>>],
     [set |-> TRUE, fails |-> TRUE, stdout |-> <<>>],
     [set |-> TRUE, fails |-> FALSE, stdout |-> <<>>],
     [set |-> TRUE, fails |-> FALSE,
      stdout |-> <<Manifest("Job", <<"w1">>, EmptyMap, EmptyMap)>>]}

WorkloadInputs ==
    {[op |-> "workload", name |-> "w1", instanceSuffix |-> "-abc", kind |-> k,
      volumes |-> v, files |-> f, ports |-> p, converterBinary |-> cb] :
        k \in KindAnnotations,
        v \in VolumeLists,
        f \in FileMaps,
        p \in PortMaps,
        cb \in ConverterBinaries}

\* ConvertWorkload on the input.
ConvertOneWorkload ==
    /\ xIn.op = "workload"
    /\ xOut = NotRun
    /\ \E fileOrder \in Orders(DOMAIN xIn.files), portOrder \in Orders(DOMAIN xIn.ports) :
          xOut' = [run |-> TRUE, out |-> ConvertWorkloadSpec(xIn, fileOrder, portOrder)]
    /\ UNCHANGED <<xIn, codecVars, provVars, genVars>>

\* The converter inputs ConvertWorkload builds for a workload without
\* files.
RawInputOf(k, v, p, o) ==
    [op |-> "inputs", name |-> "w1", instanceSuffix |-> "-abc",
     inputs |-> ConverterInputs("w1", k, commonLabels("w1", "-abc"),
                    ConvertContainer(
                        ContainerVolumesLoop([err |-> "", mounts |-> <<>>, vols |-> <<>>,
                                              claims |-> <<>>, manifests |-> <<>>], v, 0)),
                    PortList(p, o))]

RawInputs ==
    {RawInputOf(x[1], x[2], x[3], x[4]) :
        x \in {y \in KindAnnotations \X {<<>>, <<SourceVolume(<<"/", "a">>, "EmptyDir")>>,
                                          <<ClaimVolume(<<"/", "a">>, "spec")>>} \X PortMaps
                        \X UNION {Orders(DOMAIN q) : q \in PortMaps} :
                  y[4] \in Orders(DOMAIN y[3])}}

\* ConvertRawInputsToRawManifests on the input.
ConvertRawInputs ==
    /\ xIn.op = "inputs"
    /\ xOut = NotRun
    /\ xOut' = [run |-> TRUE, out |-> ConvertRawInputsToRawManifests(xIn.inputs)]
    /\ UNCHANGED <<xIn, codecVars, provVars, genVars>>

(***************************************************************************)
(* The patch engine, internal/patching.PatchServices, as section 4.8 of    *)
(* the specification and the tests of the package describe it: a template  *)
(* is rendered against the manifest list into a list of operations, and    *)
(* the operations are applied in order.  Beside it, the manifests that the *)
(* generate command writes for a state that holds patch templates.         *)
(***************************************************************************)
\* The segments of a path: an index into a list (-1 appends) or a key.
Idx(i) == [idx |-> TRUE, i |-> i, k |-> ""]

Key(k) == [idx |-> FALSE, i |-> 0, k |-> k]

PatchOp(op, path, value) == [op |-> op, path |-> path, value |-> value]

\* The node a set creates where the path goes on: a list under an index, a
\* map under a key.
EmptyFor(path) ==
    IF path # <<>> /\ Head(path).idx THEN List(<<>>) ELSE Map({}, EmptyMap)

\* The list with its element i (from 1) blanked and left in place.
BlankListElement(l, i) == [l EXCEPT ![i] = Str(<<>>)]

\* The list without its element i (from 1): the later elements move down
\* by one place.
DeleteListElement(l, i) == RemoveAt(l, i)

\* A map with k set to v.
WithKey(m, k, v) ==
    Map(m.keys \cup {k}, [j \in m.keys \cup {k} |-> IF j = k THEN v ELSE m.f[j]])

WithoutKey(m, k) == Map(m.keys \ {k}, [j \in m.keys \ {k} |-> m.f[j]])

\* What patching a node gives: the node, or the error that stopped it.
Patched(node) == [err |-> "", node |-> node]

PatchError(err, node) == [err |-> err, node |-> node]

\* The list with its element i (from 1) replaced by a patched element.
InList(l, i, r) ==
    IF r.err # "" THEN PatchError(r.err, List(l))
    ELSE Patched(List([l EXCEPT ![i] = r.node]))

\* The list with a patched element appended.
AppendedTo(l, r) ==
    IF r.err # "" THEN PatchError(r.err, List(l))
    ELSE Patched(List(Append(l, r.node)))

\* The map with a patched value under k.
InMap(m, k, r) ==
    IF r.err # "" THEN PatchError(r.err, m)
    ELSE Patched(WithKey(m, k, r.node))

\* The key a segment is in a map: a numeric segment is read by its digits.
SegmentKey(segment) == IF segment.idx THEN ToString(segment.i) ELSE segment.k

RECURSIVE PatchNode(_, _, _, _)
\* The node with the entry at the path set to the value or deleted.  A set
\* creates the maps and lists on the way and appends under -1; it is an
\* error where it cannot write: a key into a list, an index outside the
\* list, a path through a scalar.  A delete of what does not exist changes
\* nothing and is no error.
PatchNode(node, path, isDelete, value) ==
    IF node.t = "list"
    THEN IF ~Head(path).idx
         THEN IF isDelete THEN Patched(node)
              ELSE PatchError("cannot index a list by a key", node)
         ELSE IF Head(path).i = -1
         THEN IF isDelete THEN Patched(node)
              ELSE IF Len(path) = 1 THEN Patched(List(Append(node.l, value)))
              ELSE AppendedTo(node.l,
                              PatchNode(EmptyFor(Tail(path)), Tail(path), FALSE, value))
         ELSE IF Head(path).i >= 0 /\ Head(path).i < Len(node.l)
         THEN IF Len(path) > 1
              THEN InList(node.l, Head(path).i + 1,
                          PatchNode(node.l[Head(path).i + 1], Tail(path), isDelete, value))
              ELSE IF isDelete THEN Patched(List(DeleteListElement(node.l, Head(path).i + 1)))
              ELSE Patched(List([node.l EXCEPT ![Head(path).i + 1] = value]))
         ELSE IF isDelete THEN Patched(node)
         ELSE PatchError("index out of range", node)
    ELSE IF node.t = "map"
    THEN IF SegmentKey(Head(path)) \in node.keys
         THEN IF Len(path) > 1
              THEN InMap(node, SegmentKey(Head(path)),
                         PatchNode(node.f[SegmentKey(Head(path))], Tail(path), isDelete, value))
              ELSE IF isDelete THEN Patched(WithoutKey(node, SegmentKey(Head(path))))
              ELSE Patched(WithKey(node, SegmentKey(Head(path)), value))
         ELSE IF isDelete THEN Patched(node)
         ELSE IF Len(path) = 1 THEN Patched(WithKey(node, SegmentKey(Head(path)), value))
         ELSE InMap(node, SegmentKey(Head(path)),
                    PatchNode(EmptyFor(Tail(path)), Tail(path), FALSE, value))
    ELSE IF isDelete THEN Patched(node)
    ELSE PatchError("cannot set a path inside a scalar", node)

\* The manifest list of a patched top-level list; no list with an error.
PatchedManifests(r) ==
    IF r.err # "" THEN [err |-> r.err, manifests |-> <<>>]
    ELSE [err |-> "", manifests |-> r.node.l]

\* One operation applied to the manifest list: the list it leaves, or the
\* error of an operation that is neither set nor delete, that has no path,
\* or that cannot be written.
ApplyPatchOp(manifests, op) ==
    IF op.op \notin {"set", "delete"}
    THEN [err |-> "unknown operation", manifests |-> <<>>]
    ELSE IF op.path = <<>>
    THEN [err |-> "cannot change root node", manifests |-> <<>>]
    ELSE PatchedManifests(PatchNode(List(manifests), op.path, op.op = "delete", op.value))

DeploymentManifest(name) ==
    Map({"kind", "metadata", "spec"},
        [kind |-> Str(<<"Deployment">>),
         metadata |-> Map({"name"}, [name |-> Str(<<name>>)]),
         spec |->
             Map({"template"},
                 [template |->
                     Map({"spec"},
                         [spec |->
                             Map({"containers"},
                                 [containers |->
                                     List(<<Map({"image", "name"},
                                                [image |-> Str(<<"img">>),
                                                 name |-> Str(<<"main">>)])>>)])])])])

SecretManifest(name) ==
    Map({"kind", "metadata"},
        [kind |-> Str(<<"Secret">>), metadata |-> Map({"name"}, [name |-> Str(<<name>>)])])

\* A patch template by what it renders: range is "none" for a list of
\* operations written out, "forward" or "reverse" for operations rendered
\* for every manifest of .Manifests in that order of the indices, with the
\* index before each path, and "invalid" for a template that fails to
\* parse or to render; only, when not empty, keeps the range to the
\* manifests of that metadata.name.
PatchTemplate(range, only, ops) == [range |-> range, only |-> only, ops |-> ops]

\* The indices, from 0, of the manifests the range of a template visits, in
\* the order it visits them.
RangeIndices(template, manifests) ==
    SelectSeq([i \in 1..Len(manifests) |->
                  IF template.range = "reverse" THEN Len(manifests) - i ELSE i - 1],
              LAMBDA i : \/ template.only = ""
                         \/ manifests[i + 1].f["metadata"].f["name"] = Str(<<template.only>>))

RECURSIVE RenderRange(_, _)
\* The operations of the template for each index in turn.
RenderRange(ops, indices) ==
    IF indices = <<>> THEN <<>>
    ELSE [k \in 1..Len(ops) |->
             PatchOp(ops[k].op, <<Idx(Head(indices))>> \o ops[k].path, ops[k].value)]
           \o RenderRange(ops, Tail(indices))

\* The operations a patch template renders against the manifest list.
RenderPatchTemplate(template, manifests) ==
    IF template.range = "none" THEN template.ops
    ELSE RenderRange(template.ops, RangeIndices(template, manifests))

ContainersPath == <<Key("spec"), Key("template"), Key("spec"), Key("containers")>>

\* The templates of the model.  Those of the tests: an annotation set on
\* every manifest and the name of its first container deleted
\* (TestPatchServices); every manifest deleted from the last index down
\* (TestPatchServices_can_delete_manifest); two Secrets appended and the
\* manifests named my-secret deleted (TestPatchTemplatesOps).  Then every
\* manifest deleted from the first index up; the first container of the
\* first manifest deleted twice; deletes of what does not exist; and the
\* templates that fail: an unknown operation, a set outside the list, a
\* set of a key of the list, and a template that does not render.
PatchTemplates ==
    {PatchTemplate("forward", "",
              <<PatchOp("set", <<Key("metadata"), Key("annotations"), Key("k")>>, Str(<<"v">>)),
                PatchOp("delete", ContainersPath \o <<Idx(0), Key("name")>>, Str(<<>>))>>),
     PatchTemplate("reverse", "", <<PatchOp("delete", <<>>, Str(<<>>))>>),
     PatchTemplate("none", "",
              <<PatchOp("set", <<Idx(-1)>>, SecretManifest("my-secret")),
                PatchOp("set", <<Idx(-1)>>, SecretManifest("other-secret"))>>),
     PatchTemplate("forward", "my-secret", <<PatchOp("delete", <<>>, Str(<<>>))>>),
     PatchTemplate("forward", "", <<PatchOp("delete", <<>>, Str(<<>>))>>),
     PatchTemplate("none", "",
              <<PatchOp("delete", <<Idx(0)>> \o ContainersPath \o <<Idx(0)>>, Str(<<>>)),
                PatchOp("delete", <<Idx(0)>> \o ContainersPath \o <<Idx(0)>>, Str(<<>>))>>),
     PatchTemplate("none", "",
              <<PatchOp("delete", <<Idx(5)>>, Str(<<>>)),
                PatchOp("delete", <<Idx(0), Key("data"), Key("fruit")>>, Str(<<>>)),
                PatchOp("delete", <<Key("kind")>>, Str(<<>>)),
                PatchOp("delete", <<Idx(0), Key("kind"), Key("x")>>, Str(<<>>))>>),
     PatchTemplate("none", "", <<PatchOp("remove", <<Idx(0)>>, Str(<<>>))>>),
     PatchTemplate("none", "", <<PatchOp("set", <<Idx(7)>>, SecretManifest("my-secret"))>>),
     PatchTemplate("none", "", <<PatchOp("set", <<Key("kind")>>, Str(<<"v">>))>>),
     PatchTemplate("invalid", "", <<>>)}

RECURSIVE ApplyPatchOps(_, _)
\* The operations applied in order to the manifest list, up to the first
\* that fails.
ApplyPatchOps(r, ops) ==
    IF r.err # "" \/ ops = <<>> THEN r
    ELSE ApplyPatchOps(ApplyPatchOp(r.manifests, Head(ops)), Tail(ops))

\* PatchServices(state, manifests, template): the manifest list once the
\* operations the template renders are applied, or the error.
PatchServices(manifests, template) ==
    IF template.range = "invalid"
    THEN [err |-> "failed to render template", manifests |-> <<>>]
    ELSE ApplyPatchOps([err |-> "", manifests |-> manifests],
                       RenderPatchTemplate(template, manifests))

ManifestLists ==
    {<<>>, <<DeploymentManifest("x")>>, <<DeploymentManifest("x"), SecretManifest("my-secret")>>,
     <<DeploymentManifest("x"), DeploymentManifest("y"), SecretManifest("z")>>}

PatchInputs ==
    {[op |-> "patch", manifests |-> m, template |-> t] :
        m \in ManifestLists, t \in PatchTemplates}

\* PatchServices renders the template against the manifest list it is
\* given: the operations rendered are still to apply.
RenderTemplate ==
    /\ xIn.op = "patch"
    /\ xOut = NotRun
    /\ xOut' = [run |-> TRUE,
                out |-> IF xIn.template.range = "invalid"
                        THEN [err |-> "failed to render template", manifests |-> <<>>,
                              ops |-> <<>>]
                        ELSE [err |-> "", manifests |-> xIn.manifests,
                              ops |-> RenderPatchTemplate(xIn.template, xIn.manifests)]]
    /\ UNCHANGED <<xIn, codecVars, provVars, genVars>>

\* What is left to do after an operation: nothing when it failed.
AfterPatchOp(r, ops) ==
    [err |-> r.err, manifests |-> r.manifests, ops |-> IF r.err # "" THEN <<>> ELSE ops]

\* PatchServices applies the first of the operations that are left.
ApplyOp ==
    /\ xIn.op = "patch"
    /\ xOut.run
    /\ xOut.out.ops # <<>>
    /\ xOut' = [run |-> TRUE,
                out |-> AfterPatchOp(ApplyPatchOp(xOut.out.manifests, Head(xOut.out.ops)),
                                     Tail(xOut.out.ops))]
    /\ UNCHANGED <<xIn, codecVars, provVars, genVars>>

(***************************************************************************)
(* main_generate.go, lines 179 to 239, for a state whose                   *)
(* Extras.PatchingTemplates were stored by init: manifests are the         *)
(* manifests of the resources and of the workloads.  The command applies   *)
(* the --patch-manifests entries to them and writes them; it does not read *)
(* the patch templates of the state.                                       *)
(***************************************************************************)
MaxTemplates == 2

GenerateWithTemplatesInputs ==
    {[op |-> "generate", manifests |-> m, templates |-> t] :
        m \in ManifestLists,
        t \in UNION {[1..n -> PatchTemplates] : n \in 0..MaxTemplates}}

\* The manifests written by generate.
GeneratedManifests(manifests, templates) ==
    CheckOutput("manifests.yaml",
                PatchManifests(<<>>, [error |-> "", manifests |-> manifests]))

\* generate on the manifests of a state that holds the templates.
GenerateWithTemplates ==
    /\ xIn.op = "generate"
    /\ xOut = NotRun
    /\ xOut' = [run |-> TRUE, out |-> GeneratedManifests(xIn.manifests, xIn.templates)]
    /\ UNCHANGED <<xIn, codecVars, provVars, genVars>>

(***************************************************************************)
(* The init command.  The project directory holds state.yaml, the default  *)
(* provisioners file, the provisioner files saved by --provisioners and    *)
(* the score files; a file is Absent or Full with its content.             *)
(***************************************************************************)
\* What uriget.GetFile returns for the uris of the model: the two template
\* files of TestInitWithPatchingFiles, its bad template, a provisioners
\* file, and a uri that cannot be fetched.
GetFile(u) ==
    CASE u = "patch-templates-1" -> [err |-> FALSE, content |-> "[]"]
      [] u = "patch-templates-2" -> [err |-> FALSE, content |-> "annotate"]
      [] u = "patch-templates-3" -> [err |-> FALSE, content |-> "{{ what is this }}"]
      [] u = "provs.yaml"        -> [err |-> FALSE, content |-> "- uri: template://x"]
      [] OTHER                   -> [err |-> TRUE, content |-> ""]

\* patching.ValidatePatchTemplate: the template must parse.
ValidatePatchTemplate(content) == content # "{{ what is this }}"

RECURSIVE FetchTemplates(_, _, _)
\* The loop over --patch-templates: the contents fetched, in order, or the
\* error of the first uri that cannot be fetched or does not parse.
FetchTemplates(uris, i, templates) ==
    IF i > Len(uris) THEN [error |-> "", templates |-> templates]
    ELSE IF GetFile(uris[i]).err
    THEN [error |-> "error fetching patch template", templates |-> <<>>]
    ELSE IF ~ValidatePatchTemplate(GetFile(uris[i]).content)
    THEN [error |-> "error parsing patch template", templates |-> <<>>]
    ELSE FetchTemplates(uris, i + 1, Append(templates, GetFile(uris[i]).content))

\* The state init writes for a new project.
NewProjectState(templates) ==
    [Workloads |-> EmptyMap, Resources |-> EmptyMap, SharedState |-> EmptyMap,
     PatchingTemplates |-> templates]

\* A mutant of WithPatchingTemplates: the supplied templates are added to
\* the stored ones.
WithAppendedTemplates(state, templates) ==
    [state EXCEPT !.PatchingTemplates = state.PatchingTemplates \o templates]

\* sd.State.Extras.PatchingTemplates = templates
WithPatchingTemplates(state, templates) ==
    [state EXCEPT !.PatchingTemplates = templates]

\* The state directory step: an existing state is persisted again only when
\* templates were supplied, a new one always; persistFails is Persist
\* returning an error, which leaves state.yaml as it was.
InitStateDirectory(dir, templates, persistFails) ==
    IF dir.state # Absent
    THEN IF Len(templates) > 0
         THEN IF persistFails
              THEN [error |-> "failed to persist state file", dir |-> dir]
              ELSE [error |-> "",
                    dir |-> [dir EXCEPT !.state =
                                Full(WithPatchingTemplates(dir.state[2], templates))]]
         ELSE [error |-> "", dir |-> dir]
    ELSE IF persistFails
         THEN [error |-> "failed to persist new state directory", dir |-> dir]
         ELSE [error |-> "", dir |-> [dir EXCEPT !.state = Full(NewProjectState(templates))]]

\* The default provisioners file is written when it does not exist.
InitDefaultProvisioners(dir) ==
    IF dir.defaultProvisioners = Absent
    THEN [dir EXCEPT !.defaultProvisioners = Full("default")]
    ELSE dir

\* The sample score file is written when --file does not exist and
\* --no-sample is not set.
InitScoreFile(dir, file, noSample) ==
    IF dir.scoreFiles[file] = Absent /\ ~noSample
    THEN [dir EXCEPT !.scoreFiles[file] = Full("sample")]
    ELSE dir

RECURSIVE InitProvisioners(_, _, _)
\* The loop over --provisioners: each file fetched is saved in the state
\* directory under a name of its own.
InitProvisioners(dir, uris, i) ==
    IF i > Len(uris) THEN [error |-> "", dir |-> dir]
    ELSE IF GetFile(uris[i]).err
    THEN [error |-> "failed to load provisioner", dir |-> dir]
    ELSE InitProvisioners([dir EXCEPT !.custom = @ \cup {uris[i]}], uris, i + 1)

\* The command from the state directory on, r being what the state
\* directory step returned.
InitFromStateDirectory(r, flags) ==
    IF r.error # "" THEN r
    ELSE InitProvisioners(
             InitScoreFile(InitDefaultProvisioners(r.dir), flags.file, flags.noSample),
             flags.provisioners, 1)

\* The command after the templates were fetched.
InitWithTemplates(dir, flags, fetched) ==
    IF fetched.error # "" THEN [error |-> fetched.error, dir |-> dir]
    ELSE InitFromStateDirectory(
             InitStateDirectory(dir, fetched.templates, flags.persistFails), flags)

\* initCmd.RunE
initCmd(dir, flags) ==
    InitWithTemplates(dir, flags, FetchTemplates(flags.patchTemplates, 1, <<>>))

\* The --patch-templates lists of the model: none, valid ones, and lists
\* with a template that does not parse or cannot be fetched.
TemplateUriLists ==
    {<<>>, <<"patch-templates-1">>, <<"patch-templates-2">>,
     <<"patch-templates-1", "patch-templates-2">>, <<"patch-templates-3">>,
     <<"patch-templates-1", "patch-templates-3">>, <<"gone">>}

InitFlags ==
    [file           : {"score.yaml", "score2.yaml"},
     noSample       : BOOLEAN,
     patchTemplates : TemplateUriLists,
     provisioners   : {<<>>, <<"provs.yaml">>, <<"gone">>},
     persistFails   : BOOLEAN]

\* A state a generate has filled: a workload, a resource, shared state.
GeneratedState(templates) ==
    [Workloads |-> [w1 |-> "spec"], Resources |-> [r1 |-> "outputs"],
     SharedState |-> [k |-> "v"], PatchingTemplates |-> templates]

\* The directories init starts in: one that was never initialised, with or
\* without a score file of the user, and initialised ones.
InitProjects ==
    {[state |-> Absent, defaultProvisioners |-> Absent, custom |-> {},
      scoreFiles |-> [f \in {"score.yaml", "score2.yaml"} |->
                         IF f = s THEN Full("user") ELSE Absent]] : s \in {"", "score.yaml"}}
    \cup
    {[state |-> Full(st), defaultProvisioners |-> p, custom |-> {},
      scoreFiles |-> [f \in {"score.yaml", "score2.yaml"} |->
                         IF f = "score.yaml" THEN Full("user") ELSE Absent]] :
        st \in {NewProjectState(<<>>), GeneratedState(<<>>), GeneratedState(<<"[]">>)},
        p \in {Absent, Full("[]"), Full("default")}}

InitInputs == {[op |-> "init", project |-> d] : d \in InitProjects}

\* The directory as the runs so far have left it, and the last run: the
\* directory it started in, its error and its --patch-templates.
Project ==
    IF xOut.run THEN xOut.out
    ELSE [dir |-> xIn.project, before |-> xIn.project, error |-> "",
          patchTemplates |-> <<>>]

\* One run of init in the directory.
RunInit ==
    /\ xIn.op = "init"
    /\ \E flags \in InitFlags :
          xOut' = [run |-> TRUE,
                   out |-> [dir    |-> initCmd(Project.dir, flags).dir,
                            before |-> Project.dir,
                            error  |-> initCmd(Project.dir, flags).error,
                            patchTemplates |-> flags.patchTemplates]]
    /\ UNCHANGED <<xIn, codecVars, provVars, genVars>>

(***************************************************************************)
(* The dispatch specification: one input of ProvisionResources, of the     *)
(* template provisioner or of buildWorkloadServices, and that function     *)
(* applied to it.                                                          *)
(*                                                                         *)
(* Inputs of ProvisionResources: a project of two workloads whose          *)
(* resources are primed, resource c of w1 taking an output of resource b   *)
(* as a param; the resources are fresh, or hold what a previous run left.  *)
(***************************************************************************)
RunWorkloads ==
    [w \in {"w1", "w2"} |->
        IF w = "w1"
        THEN [variables |-> [k \in {} |-> <<>>],
              resources |-> [r \in {"b", "c"} |->
                                IF r = "b" THEN ResourceDecl("dns", Ptr(<<"fast">>), Nil)
                                ELSE ResourceDecl("vol", Nil, Nil)]]
        ELSE [variables |-> [k \in {} |-> <<>>],
              resources |-> [r \in {"d"} |-> ResourceDecl("dns", Nil, Ptr(<<"shared">>))]]]

\* The params the resources declare: c takes the output x of b.
RunParams(u) ==
    IF u.type = "vol" THEN [k \in {"host", "size"} |->
                               IF k = "host" THEN Ref("b", "x") ELSE Lit("10")]
    ELSE EmptyMap

\* A resource as the primer leaves it, with the params of its declaration.
PrimedWithParams(u, guid) ==
    [Guid |-> guid, ProvisionerUri |-> "", State |-> EmptyMap, Outputs |-> EmptyMap,
     Manifests |-> <<>>, Params |-> RunParams(u),
     SourceWorkload |-> IF u.id = <<"shared">> THEN "w2" ELSE "w1"]

\* A resource as a previous run left it: provisioned by uri, with outputs.
ProvisionedBefore(u, guid, uri) ==
    [PrimedWithParams(u, guid) EXCEPT !.ProvisionerUri = uri,
                                      !.State = [a |-> "old"],
                                      !.Outputs = [x |-> "old", z |-> "old"]]

\* The states of the model: every resource fresh, or every resource as a
\* previous run with the provisioners of uri left it.
RunStates ==
    {[Workloads |-> RunWorkloads,
      Resources |-> [u \in Range(UidsInOrder) |->
                        PrimedWithParams(u, CHOOSE i \in 1..Len(UidsInOrder) :
                                                UidsInOrder[i] = u)],
      SharedState |-> EmptyMap]}
    \cup
    {[Workloads |-> RunWorkloads,
      Resources |-> [u \in Range(UidsInOrder) |->
                        ProvisionedBefore(u, CHOOSE i \in 1..Len(UidsInOrder) :
                                                 UidsInOrder[i] = u, uri)],
      SharedState |-> [k \in {"i", "q"} |-> "old"]] :
        uri \in {"template://one", "template://two"}}

\* The provisioner files: MaxProvisioners provisioners of the pool, in any
\* order.
RunRegistries ==
    UNION {Orders(S) : S \in {T \in SUBSET ProvisionerPool :
                                 Cardinality(T) = MaxProvisioners}}

RunInputs ==
    {[op |-> "provision", state |-> s, provisioners |-> r] :
        s \in RunStates, r \in RunRegistries}

\* ProvisionResources, applied to the input.
ProvisionAll ==
    /\ xIn.op = "provision"
    /\ ~xOut.run
    /\ xOut' = [run |-> TRUE, out |-> ProvisionResources(xIn.state, xIn.provisioners)]
    /\ UNCHANGED <<xIn, codecVars, provVars, genVars>>

(***************************************************************************)
(* The template provisioner.  A template is modelled by what it renders:   *)
(* a map whose values are constants or fields of the data it is given, or  *)
(* a template that does not parse.  A field that the data does not hold    *)
(* renders as "<no value>".                                                *)
(***************************************************************************)
Const(v) == [from |-> "const", k |-> "", v |-> v]

From(field, k) == [from |-> field, k |-> k, v |-> ""]

Template(bad, f) == [bad |-> bad, f |-> f]

EmptyTemplate == Template(FALSE, [k \in {} |-> Const("")])

BadTemplate == Template(TRUE, [k \in {} |-> Const("")])

\* {{ .Init.k }}, {{ .State.k }}, {{ .Shared.k }} on a map.
Lookup(m, k) == IF k \in DOMAIN m THEN m[k] ELSE "<no value>"

\* The value one expression of a template renders from the data.
Eval(e, data) ==
    CASE e.from = "const"  -> e.v
      [] e.from = "uid"    -> data.Uid
      [] e.from = "init"   -> Lookup(data.Init, e.k)
      [] e.from = "state"  -> Lookup(data.State, e.k)
      [] e.from = "shared" -> Lookup(data.Shared, e.k)
      [] OTHER             -> "<no value>"

\* renderTemplateAndDecode: an empty template leaves out as it is (empty), a
\* template that does not parse is an error.
renderTemplateAndDecode(raw, data) ==
    IF raw.bad THEN [err |-> TRUE, out |-> EmptyMap]
    ELSE [err |-> FALSE, out |-> [k \in DOMAIN raw.f |-> Eval(raw.f[k], data)]]

\* The data payload built from the input.
Data(input) ==
    [Uid |-> input.ResourceUid, Init |-> EmptyMap, State |-> input.ResourceState,
     Shared |-> input.SharedState]

\* Provision returning an error: no output.
ProvisionError(stage) ==
    [err |-> stage, nil |-> TRUE, output |-> ProvisionOutput(NilMap, NilMap, NilMap, <<>>)]

\* A mutant of DataWithState: the later templates see the previous state.
DataWithPreviousState(data, state) == data

\* data.State = out.ResourceState
DataWithState(data, state) == [data EXCEPT !.State = state]

\* A manifest of the manifests template: a ConfigMap with the data rendered.
TemplateManifest(data) == [kind |-> "ConfigMap", name |-> "thing", data |-> data]

\* The validation of the manifests, r being what the manifests template
\* rendered: a manifest of a known kind that is not valid is an error.
ProvisionValidated(p, state, shared, outputs, r) ==
    IF r.err THEN ProvisionError("manifests template failed")
    ELSE IF p.ManifestsInvalid /\ DOMAIN p.ManifestsTemplate.f # {}
    THEN ProvisionError("matched a known kind but was not valid")
    ELSE [err |-> "", nil |-> FALSE,
          output |-> ProvisionOutput(SomeMap(state), SomeMap(outputs), SomeMap(shared),
                                     IF DOMAIN p.ManifestsTemplate.f = {} THEN <<>>
                                     ELSE <<TemplateManifest(r.out)>>)]

\* The manifests template, r being what the outputs template rendered.
ProvisionManifests(p, data, state, shared, r) ==
    IF r.err THEN ProvisionError("outputs template failed")
    ELSE ProvisionValidated(p, state, shared, r.out,
                            renderTemplateAndDecode(p.ManifestsTemplate, data))

\* The outputs template, r being what the shared template rendered.
ProvisionOutputs(p, data, state, r) ==
    IF r.err THEN ProvisionError("shared template failed")
    ELSE ProvisionManifests(p, [data EXCEPT !.Shared = PatchMap(data.Shared, r.out)],
             state, r.out,
             renderTemplateAndDecode(p.OutputsTemplate,
                                     [data EXCEPT !.Shared = PatchMap(data.Shared, r.out)]))

\* The shared template, r being what the state template rendered.
ProvisionShared(p, data, r) ==
    IF r.err THEN ProvisionError("state template failed")
    ELSE ProvisionOutputs(p, DataWithState(data, r.out), r.out,
             renderTemplateAndDecode(p.SharedStateTemplate, DataWithState(data, r.out)))

\* The state template, r being what the init template rendered.
ProvisionState(p, data, r) ==
    IF r.err THEN ProvisionError("init template failed")
    ELSE ProvisionShared(p, [data EXCEPT !.Init = r.out],
             renderTemplateAndDecode(p.StateTemplate, [data EXCEPT !.Init = r.out]))

\* Provisioner.Provision of the template provisioner.
Provision(p, input) ==
    ProvisionState(p, Data(input), renderTemplateAndDecode(p.InitTemplate, Data(input)))

\* The templates of the model: those of TestProvision, templates that read
\* what an earlier stage or a previous run left, and bad ones.
InitTemplates ==
    {EmptyTemplate, BadTemplate,
     Template(FALSE, [k \in {"a", "b"} |-> IF k = "a" THEN From("uid", "") ELSE Const("thing")])}

StateTemplates ==
    {EmptyTemplate, BadTemplate,
     Template(FALSE, [k \in {"a", "b"} |-> IF k = "a" THEN From("init", "a") ELSE Const("stuff")]),
     Template(FALSE, [k \in {"sk"} |-> From("state", "sk")])}

SharedTemplates ==
    {EmptyTemplate, BadTemplate,
     Template(FALSE, [k \in {"c"} |-> Const("1")]),
     Template(FALSE, [k \in {"c", "ssk"} |-> IF k = "c" THEN From("state", "b") ELSE Const(Null)])}

OutputsTemplates ==
    {EmptyTemplate, BadTemplate,
     Template(FALSE, [k \in {"b", "c", "i"} |->
                        CASE k = "b" -> From("state", "b")
                          [] k = "c" -> From("shared", "c")
                          [] OTHER   -> From("init", "a")])}

ManifestsTemplates ==
    {EmptyTemplate, BadTemplate,
     Template(FALSE, [k \in {"key", "s"} |->
                        IF k = "key" THEN From("state", "b") ELSE From("shared", "ssk")])}

TemplateProvisioners ==
    [InitTemplate : InitTemplates, StateTemplate : StateTemplates,
     SharedStateTemplate : SharedTemplates, OutputsTemplate : OutputsTemplates,
     ManifestsTemplate : ManifestsTemplates, ManifestsInvalid : BOOLEAN]

\* The input of TestProvision, the resource and the shared state holding
\* what a previous run left.
TemplateInput ==
    [ResourceUid |-> "thing.default#w.r", ResourceState |-> [k \in {"sk", "b"} |-> "old"],
     SharedState |-> [k \in {"ssk", "c"} |-> "old"]]

TemplateInputs ==
    {[op |-> "template", provisioner |-> p, input |-> TemplateInput] :
        p \in TemplateProvisioners}

\* Provision, applied to the input.
ProvisionTemplate ==
    /\ xIn.op = "template"
    /\ ~xOut.run
    /\ xOut' = [run |-> TRUE, out |-> Provision(xIn.provisioner, xIn.input)]
    /\ UNCHANGED <<xIn, codecVars, provVars, genVars>>

(***************************************************************************)
(* buildWorkloadServices.  A workload is its service ports: a map from    *)
(* port name to port number and optional target port, or no service.       *)
(***************************************************************************)
\* An optional number (*int): nil, or a value.
NilInt == [nil |-> TRUE, v |-> 0]

PtrInt(v) == [nil |-> FALSE, v |-> v]

\* util.DerefOr
DerefOr(p, d) == IF p.nil THEN d ELSE p.v

\* The ServicePort of buildWorkloadServices for the declared port s.
NetworkServicePort(s, port) ==
    [Name |-> s, Port |-> port.Port, TargetPort |-> DerefOr(port.TargetPort, port.Port),
     Protocol |-> "TCP"]

\* A mutant of AddPortByNumber: the entry under the number replaces a port
\* of that name.
AddPortByNumberOverwriting(ports, byName, s, p2) ==
    [k \in DOMAIN ports \cup {p2} |-> IF k = p2 THEN byName[s] ELSE ports[k]]

\* if _, ok := ns.Ports[p2]; !ok { ns.Ports[p2] = ns.Ports[s] }
AddPortByNumber(ports, byName, s, p2) ==
    IF p2 \in DOMAIN ports THEN ports
    ELSE [k \in DOMAIN ports \cup {p2} |-> IF k = p2 THEN ports[s] ELSE ports[k]]

RECURSIVE PortsByNumberLoop(_, _, _, _, _)
\* The second loop over the ports, in the order of this range over the map.
PortsByNumberLoop(ports, byName, declared, order, i) ==
    IF i > Len(order) THEN ports
    ELSE PortsByNumberLoop(
             AddPortByNumber(ports, byName, order[i], ToString(declared[order[i]].Port)),
             byName, declared, order, i + 1)

\* The first loop over the ports: every declared port under its name.
PortsByName(declared) == [s \in DOMAIN declared |-> NetworkServicePort(s, declared[s])]

\* The NetworkService of one workload.
NetworkService(workloadName, service, order) ==
    [ServiceName |-> workloadName,
     Ports |-> IF service.nil THEN [s \in {} |-> NetworkServicePort(s, <<>>)]
               ELSE PortsByNumberLoop(PortsByName(service.ports), PortsByName(service.ports),
                                      service.ports, order, 1)]

\* buildWorkloadServices: orders gives, for every workload, the order of the
\* range over its ports.
buildWorkloadServices(workloads, orders) ==
    [w \in DOMAIN workloads |-> NetworkService(w, workloads[w], orders[w])]

\* The port names of the model, two of them the decimal string of a number.
ServicePortNames == {"web", "admin", "80", "8080"}

ServicePortNumbers == {80, 8080}

DeclaredPort(port, targetPort) == [Port |-> port, TargetPort |-> targetPort]

NoService == [nil |-> TRUE, ports |-> [s \in {} |-> DeclaredPort(0, NilInt)]]

\* The services of the model: every map from some of the names to the
\* numbers, the port "web" with a target port of its own.
Services ==
    {NoService} \cup
    {[nil |-> FALSE,
      ports |-> [s \in names |->
                    DeclaredPort(f[s], IF s = "web" THEN PtrInt(9090) ELSE NilInt)]] :
        names \in SUBSET ServicePortNames, f \in [ServicePortNames -> ServicePortNumbers]}

ServicesInputs ==
    {[op |-> "services", workloads |-> [w \in {"w1", "w2"} |->
                                           IF w = "w1" THEN s ELSE NoService]] :
        s \in Services}

\* buildWorkloadServices, applied to the input, for one order of each range.
BuildServices ==
    /\ xIn.op = "services"
    /\ ~xOut.run
    /\ \E orders \in [DOMAIN xIn.workloads -> UNION {Orders(DOMAIN s.ports) : s \in Services}] :
          /\ \A w \in DOMAIN xIn.workloads :
                orders[w] \in Orders(DOMAIN xIn.workloads[w].ports)
          /\ xOut' = [run |-> TRUE, out |-> buildWorkloadServices(xIn.workloads, orders)]
    /\ UNCHANGED <<xIn, codecVars, provVars, genVars>>

(***************************************************************************)
(* Workloads with a converter binary whose container declares two files,   *)
(* with the order in which the score file declares them: in one directory  *)
(* or in two.                                                              *)
(***************************************************************************)
FileTargets == {<<"/", "a", "f">>, <<"/", "a", "e">>, <<"/", "b", "f">>}

TwoFileMaps ==
    {[t \in {p[1], p[2]} |-> IF t = p[1] THEN <<"a">> ELSE c] :
        p \in {q \in FileTargets \X FileTargets : q[1] # q[2]},
        c \in {<<"b">>, EncodeSecretReference(<<"a">>, <<"b">>)}}

MountOrderInputs ==
    UNION {{[op |-> "workload", name |-> "w1", instanceSuffix |-> "-abc",
             kind |-> [nil |-> TRUE, v |-> ""], volumes |-> v, files |-> f,
             ports |-> EmptyMap,
             converterBinary |-> [set |-> TRUE, fails |-> FALSE, stdout |-> <<>>],
             declared |-> d] : d \in Orders(DOMAIN f)} :
           v \in VolumeLists, f \in TwoFileMaps}

(***************************************************************************)
(* ConvertWorkload for a workload of several containers: the volumes, the  *)
(* volume claim templates and the manifests are gathered over the          *)
(* containers, taken in the order of their names.                          *)
(***************************************************************************)
\* One turn of the loop over the containers, inner being the volumes, the
\* files and the collapse of the container.
AddContainer(acc, containerName, inner) ==
    IF inner.err # "" THEN [acc EXCEPT !.err = inner.err]
    ELSE [acc EXCEPT !.containers = Append(@, [Name |-> containerName,
                                               VolumeMounts |-> inner.mounts]),
                     !.volumes = @ \o inner.vols,
                     !.claims = inner.claims,
                     !.manifests = inner.manifests]

RECURSIVE ContainersLoop(_, _, _, _, _)
\* The loop over containerNames, fileOrders giving for every container the
\* order of the range over its files.
ContainersLoop(acc, w, containerNames, fileOrders, i) ==
    IF i > Len(containerNames) \/ acc.err # "" THEN acc
    ELSE ContainersLoop(
             AddContainer(acc, containerNames[i],
                 ConvertContainer(
                     ContainerFilesLoop(
                         ContainerVolumesLoop([err |-> "", mounts |-> <<>>, vols |-> <<>>,
                                               claims |-> acc.claims,
                                               manifests |-> acc.manifests],
                                              w.containers[containerNames[i]].volumes, 0),
                         w.containers[containerNames[i]].files, fileOrders[containerNames[i]],
                         <<w.name, "-", containerNames[i], "-">>))),
             w, containerNames, fileOrders, i + 1)

\* slices.Sort(containerNames), the names being single letters.
SortedContainerNames(names) == orderedMountPaths({<<n>> : n \in names})

\* converterInputs for the containers converted.
PodConverterInputs(w, acc) ==
    [WorkloadName |-> w.name,
     WorkloadAnnotations |-> w.kind,
     PodTemplate |-> [Labels |-> commonLabels(w.name, w.instanceSuffix),
                      Containers |-> acc.containers, Volumes |-> acc.volumes],
     VolumeClaimTemplates |-> acc.claims,
     ServicePorts |-> <<>>]

\* ConvertWorkload once the containers are converted.
ConvertedPod(w, acc) ==
    IF acc.err # "" THEN [err |-> acc.err, manifests |-> <<>>, stdin |-> <<>>]
    ELSE ConvertedBy(w.converterBinary, acc.manifests, PodConverterInputs(w, acc))

\* ConvertWorkload on a workload of several containers without ports.
ConvertPodWorkload(w, fileOrders) ==
    ConvertedPod(w,
        ContainersLoop([err |-> "", containers |-> <<>>, volumes |-> <<>>, claims |-> <<>>,
                        manifests |-> <<>>],
                       w, [i \in 1..Cardinality(DOMAIN w.containers) |->
                              SortedContainerNames(DOMAIN w.containers)[i][1]],
                       fileOrders, 1))

\* The containers of the model: no volume, one volume or one volume claim;
\* no file, one file, or two files in one directory.
PodContainers ==
    [volumes : {<<>>, <<SourceVolume(<<"/", "a">>, "EmptyDir")>>,
                <<ClaimVolume(<<"/", "a">>, "spec")>>},
     files   : {EmptyMap,
                [t \in {<<"/", "a", "f">>} |-> <<"a">>],
                [t \in {<<"/", "a", "f">>, <<"/", "a", "e">>} |-> <<"a">>]}]

PodInputs ==
    {[op |-> "pod", name |-> "w1", instanceSuffix |-> "-abc", kind |-> k,
      containers |-> [n \in {"a", "b"} |-> IF n = "a" THEN ca ELSE cb],
      converterBinary |-> bin] :
        bin \in {[set |-> FALSE, fails |-> FALSE, stdout |-> <<>>],
                [set |-> TRUE, fails |-> FALSE, stdout |-> <<>>]},
        k \in {[nil |-> TRUE, v |-> ""], Ptr("StatefulSet")},
        ca \in PodContainers, cb \in PodContainers}

\* ConvertWorkload on the input, for one order of the range over the files
\* of each container.
ConvertPod ==
    /\ xIn.op = "pod"
    /\ xOut = NotRun
    /\ \E fileOrders \in [DOMAIN xIn.containers ->
                             UNION {Orders(DOMAIN c.files) : c \in PodContainers}] :
          /\ \A n \in DOMAIN xIn.containers :
                fileOrders[n] \in Orders(DOMAIN xIn.containers[n].files)
          /\ xOut' = [run |-> TRUE, out |-> ConvertPodWorkload(xIn, fileOrders)]
    /\ UNCHANGED <<xIn, codecVars, provVars, genVars>>

(***************************************************************************)
(* Containers whose variables hold, inside text, references to secrets     *)
(* whose names and keys share their letters.                               *)
(***************************************************************************)
TextWithReference ==
    {<<"a">> \o EncodeSecretReference(n, k) :
        n \in {<<"a">>, <<"a", "b">>}, k \in {<<"b">>, <<"b", "b">>}}

SecretRefInputs ==
    {[op |-> "variables", variables |-> v] :
        v \in [{<<"K">>, <<"a">>} -> TextWithReference]}

(***************************************************************************)
(* unnamed/part_013: the ConvertWorkload that returns the manifests it     *)
(* builds, for a workload of one container.  It shares                     *)
(* convertContainerVolume, convertContainerFile and collapseVolumeMounts   *)
(* with the ConvertWorkload of internal/convert/workloads.go.              *)
(***************************************************************************)
\* The kind of the workload: Deployment unless the annotation
\* k8s.score.dev/kind is found.
WorkloadKind(annotation) == IF annotation.nil THEN "Deployment" ELSE annotation.v

\* The body of the loop over container.Volumes.  A claim is kept for a
\* StatefulSet; for another kind the function returns
\* errors.Wrapf(err, ..) where err is the nil error of the branch, which
\* is a nil error next to the nil manifests.
AddVolumeOfKind(acc, r, kind) ==
    IF acc.returned THEN acc
    ELSE IF r.err # ""
    THEN [acc EXCEPT !.returned = TRUE, !.err = "volumes: failed to convert"]
    ELSE IF ~r.claim.nil
    THEN IF kind # "StatefulSet"
         THEN [acc EXCEPT !.returned = TRUE, !.mounts = Append(@, r.mount)]
         ELSE [acc EXCEPT !.mounts = Append(@, r.mount), !.claims = Append(@, r.claim.v)]
    ELSE [acc EXCEPT !.mounts = Append(@, r.mount),
                     !.vols = IF ~r.vol.nil THEN Append(@, r.vol.v) ELSE @]

RECURSIVE VolumesOfKindLoop(_, _, _, _)
\* The loop over container.Volumes from index i (from 0, as Go counts).
VolumesOfKindLoop(acc, volumes, i, kind) ==
    IF i >= Len(volumes) THEN acc
    ELSE VolumesOfKindLoop(
             AddVolumeOfKind(acc, convertContainerVolume(i, volumes[i + 1]), kind),
             volumes, i + 1, kind)

\* The return inside the loop over container.Files: on the error of
\* convertContainerFile the function returns nil manifests and the error.
ReturnedOnError(acc) ==
    IF acc.err # "" THEN [acc EXCEPT !.returned = TRUE] ELSE acc

\* The loop over container.Files and the collapse of the mounts, unless
\* the function has returned.
FilesAndCollapse(acc, files, fileOrder, prefix) ==
    IF acc.returned THEN acc
    ELSE ReturnedOnError(
             ConvertContainer(ContainerFilesLoop(acc, files, fileOrder, prefix)))

\* The pod template of the Deployment or the StatefulSet.
PodTemplateSpec(labels, acc) ==
    [Labels |-> labels, VolumeMounts |-> acc.mounts, Volumes |-> acc.vols]

\* The Service of the declared ports.
PortsService(w, labels, portOrder) ==
    IF DOMAIN w.ports # {}
    THEN <<Manifest("Service", <<w.name>>, labels,
                    [Selector |-> [l \in {"app.kubernetes.io/instance"} |-> labels[l]],
                     Ports |-> PortList(w.ports, portOrder)])>>
    ELSE <<>>

\* The switch on the kind: a Deployment, or a headless Service and a
\* StatefulSet.
KindManifests(w, labels, acc, kind) ==
    IF kind = "Deployment"
    THEN <<Manifest("Deployment", <<w.name>>, labels,
                    [Selector |-> [l \in {"app.kubernetes.io/instance"} |-> labels[l]],
                     Template |-> PodTemplateSpec(labels, acc)])>>
    ELSE <<Manifest("Service", <<w.name, "-headless-svc">>, labels,
                    [Selector |-> [l \in {"app.kubernetes.io/instance"} |-> labels[l]],
                     ClusterIP |-> "None",
                     Ports |-> <<[Name |-> "default", Port |-> 99, TargetPort |-> 99,
                                  Protocol |-> ""]>>]),
           Manifest("StatefulSet", <<w.name>>, labels,
                    [Selector |-> [l \in {"app.kubernetes.io/instance"} |-> labels[l]],
                     ServiceName |-> <<w.name, "-headless-svc">>,
                     Template |-> PodTemplateSpec(labels, acc),
                     VolumeClaimTemplates |-> acc.claims])>>

\* The end of ConvertWorkload: nil manifests where the loops returned,
\* or the ConfigMaps of the files, the Service of the ports and the
\* manifests of the kind.
BuiltManifests(w, labels, acc, kind, portOrder) ==
    IF acc.returned THEN [err |-> acc.err, nil |-> TRUE, manifests |-> <<>>]
    ELSE [err |-> "", nil |-> FALSE,
          manifests |-> acc.manifests \o PortsService(w, labels, portOrder)
                           \o KindManifests(w, labels, acc, kind)]

\* ConvertWorkload once the kind is known: a kind other than Deployment
\* and StatefulSet returns errors.Wrapf(err, ..) on the nil err of
\* GetResourceOutputForWorkload, a nil error next to the nil manifests.
ConvertWorkloadOfKind(w, kind, fileOrder, portOrder) ==
    IF kind \notin {"Deployment", "StatefulSet"}
    THEN [err |-> "", nil |-> TRUE, manifests |-> <<>>]
    ELSE BuiltManifests(w, commonLabels(w.name, w.instanceSuffix),
             FilesAndCollapse(
                 VolumesOfKindLoop([returned |-> FALSE, err |-> "", mounts |-> <<>>,
                                    vols |-> <<>>, claims |-> <<>>, manifests |-> <<>>],
                                   w.volumes, 0, kind),
                 w.files, fileOrder, <<w.name, "-", "main", "-">>),
             kind, portOrder)

ManifestInputs ==
    {[op |-> "manifests", name |-> "w1", instanceSuffix |-> "-abc", kind |-> k,
      volumes |-> v, files |-> f, ports |-> p] :
        k \in KindAnnotations,
        v \in VolumeLists,
        f \in FileMaps,
        p \in PortMaps}

\* This ConvertWorkload on the input, for one order of the range over its
\* files and one over its service ports.
ConvertToManifests ==
    /\ xIn.op = "manifests"
    /\ xOut = NotRun
    /\ \E fileOrder \in Orders(DOMAIN xIn.files), portOrder \in Orders(DOMAIN xIn.ports) :
          xOut' = [run |-> TRUE,
                   out |-> ConvertWorkloadOfKind(xIn, WorkloadKind(xIn.kind),
                                                 fileOrder, portOrder)]
    /\ UNCHANGED <<xIn, codecVars, provVars, genVars>>

ConvInputs ==
    VariablesInputs \cup FileInputs \cup CollapseInputs \cup WorkloadInputs
        \cup MountOrderInputs \cup PodInputs
        \cup SecretRefInputs \cup RawInputs \cup ManifestInputs

ConvInit ==
    /\ xIn \in ConvInputs
    /\ xOut = NotRun
    /\ cIn = RawInput(<<>>)
    /\ cDec = NotRun
    /\ cScan = NotRun
    /\ cEnv = NotRun
    /\ pState = [Resources |-> EmptyMap, SharedState |-> EmptyMap]
    /\ pRegistry = <<>>
    /\ pRun = NotRun
    /\ GenUnused

ConvNext ==
    \/ ConvertVariables
    \/ ConvertFile
    \/ CollapseMounts
    \/ ConvertOneWorkload
    \/ ConvertPod
    \/ ConvertRawInputs
    \/ ConvertToManifests

SpecConvert == ConvInit /\ [][ConvNext]_vars


PatchInit ==
    /\ xIn \in PatchInputs \cup GenerateWithTemplatesInputs
    /\ xOut = NotRun
    /\ cIn = RawInput(<<>>)
    /\ cDec = NotRun
    /\ cScan = NotRun
    /\ cEnv = NotRun
    /\ pState = [Resources |-> EmptyMap, SharedState |-> EmptyMap]
    /\ pRegistry = <<>>
    /\ pRun = NotRun
    /\ GenUnused

PatchNext ==
    \/ RenderTemplate
    \/ ApplyOp
    \/ GenerateWithTemplates

SpecPatch == PatchInit /\ [][PatchNext]_vars

InitCmdInit ==
    /\ xIn \in InitInputs
    /\ xOut = NotRun
    /\ cIn = RawInput(<<>>)
    /\ cDec = NotRun
    /\ cScan = NotRun
    /\ cEnv = NotRun
    /\ pState = [Resources |-> EmptyMap, SharedState |-> EmptyMap]
    /\ pRegistry = <<>>
    /\ pRun = NotRun
    /\ GenUnused

InitCmdNext == RunInit

SpecInit == InitCmdInit /\ [][InitCmdNext]_vars

DispatchInputs == RunInputs \cup TemplateInputs \cup ServicesInputs

DispatchInit ==
    /\ xIn \in DispatchInputs
    /\ xOut = NotRun
    /\ cIn = RawInput(<<>>)
    /\ cDec = NotRun
    /\ cScan = NotRun
    /\ cEnv = NotRun
    /\ pState = [Resources |-> EmptyMap, SharedState |-> EmptyMap]
    /\ pRegistry = <<>>
    /\ pRun = NotRun
    /\ GenUnused

DispatchNext ==
    \/ ProvisionAll
    \/ ProvisionTemplate
    \/ BuildServices

SpecDispatch == DispatchInit /\ [][DispatchNext]_vars

(***************************************************************************)
(* Properties of the conversion.                                           *)
(***************************************************************************)
\* A synthetic env var: named __ref_... and bound to a secret key.
IsSynthetic(e) ==
    /\ e.ValueFrom.set
    /\ Len(e.Name) > 6
    /\ SubSeq(e.Name, 1, 6) = <<"_", "_", "r", "e", "f", "_">>

\* The env vars from index i on are sorted by name.
SortedByName(env, indices) ==
    \A i, j \in indices : i < j => ~StringLess(env[j].Name, env[i].Name)

\* C11: in the env list of a container the synthetic __ref_ variables occur
\* once each and before every user variable, and the synthetic variables
\* and the user variables are each in the order of their names, whatever the
\* names of the user variables.
C11_SyntheticsFirstSorted ==
    (xIn.op = "variables" /\ xOut.run /\ xOut.out.outcome = "ok") =>
        LET env       == xOut.out.env
            synthetic == {i \in 1..Len(env) : IsSynthetic(env[i])}
            user      == (1..Len(env)) \ synthetic
        IN /\ \A i, j \in synthetic : env[i].Name = env[j].Name => i = j
           /\ \A i \in synthetic, j \in user : i < j
           /\ SortedByName(env, synthetic)
           /\ SortedByName(env, user)


\* s holds a secret reference: some part of it is one encoded reference.
ContainsSecretRef(s) ==
    \E i, j \in 1..Len(s) : i < j /\ IsOneEncodedRef(SubSeq(s, i, j))

\* C12: a file whose substituted content is exactly one secret reference
\* gives a Secret-backed volume of one item and no ConfigMap; content with
\* no secret reference (no opening sentinel at all) gives a ConfigMap holding it under the key "file"
\* and a volume backed by that ConfigMap; any other content (a reference
\* with other text or further references) gives an error, no volume and no
\* ConfigMap.
C12_FileContentCases ==
    (xIn.op = "file" /\ xOut.run) =>
        LET r == xOut.out
            s == xIn.content
        IN IF IsOneEncodedRef(s)
           THEN /\ r.err = "" /\ r.cfg.nil /\ ~r.vol.nil
                /\ r.vol.v.source = "Secret" /\ Len(r.vol.v.items) = 1
           ELSE IF ~IsSubstring(magicPrefix, s)
           THEN /\ r.err = "" /\ ~r.cfg.nil /\ ~r.vol.nil
                /\ r.cfg.v.BinaryData = [file |-> s]
                /\ r.vol.v.source = "ConfigMap" /\ r.vol.v.ref = r.cfg.v.Name
           ELSE ContainsSecretRef(s) => (r.err # "" /\ r.cfg.nil /\ r.vol.nil)

\* The input volumes backed by a ConfigMap or a Secret and mounted at p.
GroupAt(p) ==
    {i \in 1..Len(xIn.volumes) :
        /\ xIn.volumes[i].source \in {"ConfigMap", "Secret"}
        /\ \E m \in 1..Len(xIn.mounts) :
              xIn.mounts[m].Name = xIn.volumes[i].Name /\ xIn.mounts[m].MountPath = p}

\* The mount paths shared by two or more ConfigMap or Secret volumes.
SharedPaths == {p \in MountPaths : Cardinality(GroupAt(p)) >= 2}

\* The index of the projected volume of p: the number of shared paths
\* before p.
ProjectedIndexOf(p) == Cardinality({q \in SharedPaths : StringLess(q, p)})

\* The input volumes that are not collapsed.
PassedThrough ==
    {i \in 1..Len(xIn.volumes) :
        \A p \in SharedPaths : i \notin GroupAt(p)}

Occurrences(seq, x) == Cardinality({i \in 1..Len(seq) : seq[i] = x})

\* C13: collapseVolumeMounts outputs, for every mount path shared by two or
\* more ConfigMap or Secret volumes, exactly one projected volume named
\* proj-vol-<i>, i counted from 0 in the sorted order of these paths, whose
\* projections are exactly those volumes, with exactly one read-only mount
\* at that path; every other volume is output once, unchanged, with its
\* mount, and nothing else is output.
C13_CollapseProjectsSharedPaths ==
    (xIn.op = "collapse" /\ xOut.run) =>
        LET vols == xOut.out.outputVols
            mounts == xOut.out.outputMounts
        IN /\ \A p \in SharedPaths :
                 LET name == <<"proj-vol-", ToString(ProjectedIndexOf(p))>>
                 IN /\ \E j \in 1..Len(vols) :
                          /\ vols[j].Name = name
                          /\ vols[j].source = "Projected"
                          /\ Len(vols[j].sources) = Cardinality(GroupAt(p))
                          /\ Range(vols[j].sources) =
                                {VolumeProjection(xIn.volumes[i]) : i \in GroupAt(p)}
                          /\ \A k \in 1..Len(vols) : vols[k].Name = name => k = j
                    /\ Occurrences(mounts, VolumeMount(name, p, TRUE)) = 1
                    /\ \A m \in 1..Len(mounts) :
                          mounts[m].Name = name => mounts[m] = VolumeMount(name, p, TRUE)
           /\ \A i \in PassedThrough :
                 /\ Occurrences(vols, xIn.volumes[i]) = 1
                 /\ \A m \in 1..Len(xIn.mounts) :
                       xIn.mounts[m].Name = xIn.volumes[i].Name =>
                           Occurrences(mounts, xIn.mounts[m]) = 1
           /\ Len(vols) = Cardinality(SharedPaths) + Cardinality(PassedThrough)
           /\ Len(mounts) = Len(xIn.mounts) + Cardinality(SharedPaths)
                               - Cardinality(UNION {GroupAt(p) : p \in SharedPaths})

\* Two paths are shared, the first mount is at the greater one, and the
\* second projected volume is output.
C13_Witness ==
    /\ xIn.op = "collapse" /\ xOut.run
    /\ Cardinality(SharedPaths) = 2
    /\ xIn.mounts[1].MountPath = <<"/", "b">>
    /\ \E j \in 1..Len(xOut.out.outputVols) :
          xOut.out.outputVols[j].Name = <<"proj-vol-", "1">>

\* The workload is converted here (no converter binary) and the conversion
\* of its container did not fail.
ConvertedHere == xIn.op = "workload" /\ xOut.run /\ ~xIn.converterBinary.set

HasKind(manifests, kind) == \E i \in 1..Len(manifests) : manifests[i].Kind = kind

\* The workload is of the Deployment kind: by default or by annotation.
IsDeploymentKind == xIn.kind.nil \/ xIn.kind.v = "Deployment"

\* C14: the conversion of a workload of the Deployment kind fails when one
\* of its volumes resolves to a resource whose outputs hold a claimSpec,
\* and no Deployment is returned for it.
C14_ClaimSpecInDeploymentFails ==
    (xIn.op = "workload" /\ xOut.run /\ IsDeploymentKind
       /\ \E i \in 1..Len(xIn.volumes) : "claimSpec" \in DOMAIN xIn.volumes[i].outputs) =>
        (xOut.out.err # "" /\ ~HasKind(xOut.out.manifests, "Deployment"))

\* The conversion of the container does not fail: the outputs of every
\* volume's resource hold a source or a claimSpec.
ContainerConverts == xIn.volumes \notin FailingVolumeLists

\* C15: the annotation k8s.score.dev/kind selects the kind of the workload:
\* absent, a Deployment is returned; Deployment or StatefulSet, a manifest
\* of that kind; with any other value the conversion returns an error and
\* no manifest.
C15_KindAnnotationSelectsKind ==
    (ConvertedHere /\ ContainerConverts) =>
        IF xIn.kind.nil
        THEN /\ xOut.out.err = ""
             /\ HasKind(xOut.out.manifests, "Deployment")
             /\ ~HasKind(xOut.out.manifests, "StatefulSet")
        ELSE IF xIn.kind.v \in {"Deployment", "StatefulSet"}
        THEN /\ xOut.out.err = ""
             /\ HasKind(xOut.out.manifests, xIn.kind.v)
             /\ ~HasKind(xOut.out.manifests,
                         IF xIn.kind.v = "Deployment" THEN "StatefulSet" ELSE "Deployment")
        ELSE xOut.out.err # "" /\ xOut.out.manifests = <<>>

\* The Service of the declared ports, as opposed to the headless Service of
\* a StatefulSet.
IsPortService(m) == m.Kind = "Service" /\ m.Name # <<xIn.name, "-headless-svc">>

\* The port entry a declared port calls for.
ExpectedPort(n) ==
    [Name |-> n,
     Port |-> xIn.ports[n].Port,
     TargetPort |-> IF xIn.ports[n].TargetPort.nil \/ xIn.ports[n].TargetPort.v = 0
                    THEN xIn.ports[n].Port ELSE xIn.ports[n].TargetPort.v,
     Protocol |-> IF xIn.ports[n].Protocol.nil \/ xIn.ports[n].Protocol.v = ""
                  THEN "TCP" ELSE ToUpper(xIn.ports[n].Protocol.v)]

\* The manifests hold the Service of the declared ports: it selects by the
\* instance label and has one port entry for each declared port.
HasPortService(ms) ==
    \E i \in 1..Len(ms) :
        /\ IsPortService(ms[i])
        /\ ms[i].Spec.Selector =
              [l \in {"app.kubernetes.io/instance"} |-> <<xIn.name, xIn.instanceSuffix>>]
        /\ Len(ms[i].Spec.Ports) = Cardinality(DOMAIN xIn.ports)
        /\ \A n \in DOMAIN xIn.ports :
              \E j \in 1..Len(ms[i].Spec.Ports) : ms[i].Spec.Ports[j] = ExpectedPort(n)

\* C16: the manifests converted for a workload that declares service ports
\* hold a Service that selects by the instance label and has one port
\* entry for each declared port, its targetPort defaulting to the port and
\* its protocol to TCP; the manifests of a workload without ports hold no
\* such Service.  The same holds of the manifests written for converter
\* inputs that carry service ports.
C16_ServiceForDeclaredPorts ==
    /\ (ConvertedHere /\ ContainerConverts
          /\ (xIn.kind.nil \/ xIn.kind.v \in {"", "Deployment", "StatefulSet"})) =>
           IF DOMAIN xIn.ports # {}
           THEN xOut.out.err = "" /\ HasPortService(xOut.out.manifests)
           ELSE \A i \in 1..Len(xOut.out.manifests) : ~IsPortService(xOut.out.manifests[i])
    /\ (xIn.op = "inputs" /\ xOut.run /\ xOut.out.err = "") =>
           (xIn.inputs.ServicePorts # <<>>) =
               (\E i \in 1..Len(xOut.out.manifests) : IsPortService(xOut.out.manifests[i]))

\* The three labels of the workload.
HasCommonLabels(m) ==
    /\ DOMAIN m.Labels = {"app.kubernetes.io/name", "app.kubernetes.io/instance",
                          "app.kubernetes.io/managed-by"}
    /\ m.Labels["app.kubernetes.io/name"] = <<xIn.name>>
    /\ m.Labels["app.kubernetes.io/instance"] = <<xIn.name, xIn.instanceSuffix>>
    /\ m.Labels["app.kubernetes.io/managed-by"] = <<"score-k8s">>

\* C17 as stated: every manifest the converter returns for a workload, the
\* ConfigMaps of its files included, carries the three labels
\* app.kubernetes.io/name, instance and managed-by of the workload.
C17_EveryManifestLabelled ==
    (xIn.op = "workload" /\ xOut.run /\ xOut.out.err = "") =>
        \A i \in 1..Len(xOut.out.manifests) : HasCommonLabels(xOut.out.manifests[i])

\* C17 amended: every Deployment, StatefulSet, Service of the declared
\* ports and headless Service that the workload converter produces carries
\* the three labels of the workload, and the ConfigMaps it produces for the
\* files of the containers carry no label.  This holds of the manifests
\* either ConvertWorkload returns and of those written for converter
\* inputs.
C17_WorkloadManifestsLabelled ==
    /\ (xIn.op \in {"workload", "manifests"} /\ xOut.run) =>
           \A i \in 1..Len(xOut.out.manifests) :
               IF xOut.out.manifests[i].Kind = "ConfigMap"
               THEN DOMAIN xOut.out.manifests[i].Labels = {}
               ELSE HasCommonLabels(xOut.out.manifests[i])
    /\ (xIn.op = "inputs" /\ xOut.run) =>
           \A i \in 1..Len(xOut.out.manifests) : HasCommonLabels(xOut.out.manifests[i])

\* The ConfigMap of a file, the Service of the declared ports, the
\* headless Service and the StatefulSet with a volume claim template are
\* returned for one workload.
C17_Witness ==
    /\ xIn.op = "manifests" /\ xOut.run /\ xOut.out.err = ""
    /\ HasKind(xOut.out.manifests, "ConfigMap")
    /\ HasKind(xOut.out.manifests, "StatefulSet")
    /\ \E i \in 1..Len(xOut.out.manifests) : IsPortService(xOut.out.manifests[i])
    /\ \E i \in 1..Len(xOut.out.manifests) :
          /\ xOut.out.manifests[i].Kind = "StatefulSet"
          /\ xOut.out.manifests[i].Spec.VolumeClaimTemplates # <<>>

\* C18: for a workload with a converter binary that ran, the manifests
\* returned are those the binary printed (next to the ConfigMaps of the
\* files), and no Deployment, StatefulSet or Service built here is among
\* them.
C18_ConverterBinaryManifestsReturned ==
    (xIn.op = "workload" /\ xOut.run /\ xIn.converterBinary.set
       /\ ~xIn.converterBinary.fails /\ ContainerConverts) =>
        /\ xOut.out.err = ""
        /\ SelectSeq(xOut.out.manifests, LAMBDA m : m.Kind # "ConfigMap")
              = xIn.converterBinary.stdout

RECURSIVE PatchedByAll(_, _, _)
\* The manifest list once the templates from index i on are applied in
\* their order, each rendered against the list the one before left, or
\* the error of the first that fails.
PatchedByAll(r, templates, i) ==
    IF r.err # "" \/ i > Len(templates) THEN r
    ELSE PatchedByAll(PatchServices(r.manifests, templates[i]), templates, i + 1)

\* C19: the manifests written by generate are the manifests of the
\* resources and workloads patched by the patch templates of the state in
\* the order they were given to init, each template rendered against the
\* manifest list as all earlier templates left it; a template that fails
\* makes the command fail.
C19_TemplatesRenderedInOrder ==
    (xIn.op = "generate" /\ xOut.run) =>
        IF PatchedByAll([err |-> "", manifests |-> xIn.manifests], xIn.templates, 1).err = ""
        THEN /\ xOut.out.error = ""
             /\ xOut.out.manifests =
                   PatchedByAll([err |-> "", manifests |-> xIn.manifests],
                                xIn.templates, 1).manifests
        ELSE xOut.out.error # ""

RECURSIVE ValueAt(_, _)
\* The node at the path.
ValueAt(node, path) ==
    IF path = <<>> THEN node
    ELSE IF node.t = "list" THEN ValueAt(node.l[Head(path).i + 1], Tail(path))
    ELSE ValueAt(node.f[Head(path).k], Tail(path))

RECURSIVE TargetExists(_, _)
\* The path addresses an entry of the node: every index is inside its list
\* and every key is in its map.
TargetExists(node, path) ==
    IF path = <<>> THEN TRUE
    ELSE IF node.t = "list"
    THEN /\ Head(path).idx
         /\ Head(path).i >= 0 /\ Head(path).i < Len(node.l)
         /\ TargetExists(node.l[Head(path).i + 1], Tail(path))
    ELSE IF node.t = "map"
    THEN /\ ~Head(path).idx
         /\ Head(path).k \in node.keys
         /\ TargetExists(node.f[Head(path).k], Tail(path))
    ELSE FALSE

\* after is before with the element at index i (from 0) removed and the
\* later elements moved down by one.
DeletedAt(before, after, i) ==
    /\ Len(after) = Len(before) - 1
    /\ \A j \in 1..i : after[j] = before[j]
    /\ \A j \in (i + 1)..Len(after) : after[j] = before[j + 1]

\* after is the map before without the key k.
DeletedKey(before, after, k) ==
    /\ after.keys = before.keys \ {k}
    /\ \A j \in after.keys : after.f[j] = before.f[j]

\* The entry the last segment of the path addresses is removed from the
\* list or the map that holds it.
DeletedFromParent(before, after, path) ==
    IF path[Len(path)].idx
    THEN DeletedAt(ValueAt(List(before), SubSeq(path, 1, Len(path) - 1)).l,
                   ValueAt(List(after), SubSeq(path, 1, Len(path) - 1)).l,
                   path[Len(path)].i)
    ELSE DeletedKey(ValueAt(List(before), SubSeq(path, 1, Len(path) - 1)),
                    ValueAt(List(after), SubSeq(path, 1, Len(path) - 1)),
                    path[Len(path)].k)

\* C20: a delete operation removes the addressed entry and nothing else,
\* without error.  Deleting manifest i moves every later manifest down by
\* one, and the operations that follow are applied to the renumbered list;
\* deleting an entry inside manifest i removes it from the list or the map
\* that holds it, moving the later elements of that list down by one, and
\* leaves the other manifests and the other top-level keys of the manifest
\* as they were; a delete whose target does not exist leaves the manifest
\* list unchanged and is no error.
C20_DeleteRemovesAddressedEntry ==
    [][(xIn.op = "patch" /\ xOut.run /\ xOut.out.ops # <<>>
          /\ Head(xOut.out.ops).op = "delete" /\ Head(xOut.out.ops).path # <<>>) =>
          /\ xOut'.out.err = ""
          /\ xOut'.out.ops = Tail(xOut.out.ops)
          /\ IF ~TargetExists(List(xOut.out.manifests), Head(xOut.out.ops).path)
             THEN xOut'.out.manifests = xOut.out.manifests
             ELSE /\ DeletedFromParent(xOut.out.manifests, xOut'.out.manifests,
                                       Head(xOut.out.ops).path)
                  /\ Len(Head(xOut.out.ops).path) > 1 =>
                        /\ Len(xOut'.out.manifests) = Len(xOut.out.manifests)
                        /\ \A j \in 1..Len(xOut.out.manifests) :
                              IF j # Head(xOut.out.ops).path[1].i + 1
                              THEN xOut'.out.manifests[j] = xOut.out.manifests[j]
                              ELSE /\ xOut'.out.manifests[j].keys = xOut.out.manifests[j].keys
                                   /\ \A k \in xOut.out.manifests[j].keys :
                                         k # Head(xOut.out.ops).path[2].k =>
                                            xOut'.out.manifests[j].f[k]
                                               = xOut.out.manifests[j].f[k]]_vars

\* Three manifests, and the template that deletes every manifest from the
\* first index up: the second delete removes the third manifest of the
\* input and the third finds nothing, so that the second manifest is left,
\* without error.
C20_Witness ==
    /\ xIn.op = "patch" /\ xOut.run
    /\ xIn.template = PatchTemplate("forward", "", <<PatchOp("delete", <<>>, Str(<<>>))>>)
    /\ Len(xIn.manifests) = 3
    /\ xOut.out.ops = <<>> /\ xOut.out.err = ""
    /\ xOut.out.manifests = <<xIn.manifests[2]>>

(***************************************************************************)
(* Properties of the manifests written, of init, of the provisioning run   *)
(* and of the pod template.                                                *)
(***************************************************************************)
\* The kind and the name of a manifest.
KindAndName(m) == <<m.f["kind"].s, m.f["metadata"].f["name"].s>>

\* C21: when several resources emit auxiliary manifests with the same kind
\* and name, the manifests file written by generate holds that manifest
\* exactly once: no two documents of the file have the same kind and name.
C21_ResourceManifestsDeduplicated ==
    gFs[ManifestsFile] \notin {Absent, Partial} =>
        \A i, j \in 1..Len(gFs[ManifestsFile][2]) :
            KindAndName(gFs[ManifestsFile][2][i][2]) = KindAndName(gFs[ManifestsFile][2][j][2])
                => i = j

\* The contents of the files --patch-templates names, in order.
SuppliedTemplates(uris) ==
    [i \in 1..Len(uris) |-> GetFile(uris[i]).content]

\* Some supplied template cannot be fetched or fails validation.
SomeTemplateRejected(uris) ==
    \E i \in 1..Len(uris) :
        \/ GetFile(uris[i]).err
        \/ ~ValidatePatchTemplate(GetFile(uris[i]).content)

\* C22: a run of init in an already initialised project, after any number
\* of earlier runs, leaves the workloads, resources and shared state of
\* state.yaml, an existing default provisioners file and every existing score
\* file as they were; the stored patch templates change only when
\* --patch-templates is supplied, and are then the supplied list; a supplied
\* template that is rejected makes init fail with state.yaml as it was.
C22_InitKeepsInitialisedProject ==
    (xIn.op = "init" /\ xOut.run /\ Project.before.state # Absent) =>
        /\ Project.dir.state # Absent
        /\ Project.dir.state[2].Workloads = Project.before.state[2].Workloads
        /\ Project.dir.state[2].Resources = Project.before.state[2].Resources
        /\ Project.dir.state[2].SharedState = Project.before.state[2].SharedState
        /\ Project.before.defaultProvisioners # Absent =>
               Project.dir.defaultProvisioners = Project.before.defaultProvisioners
        /\ \A f \in DOMAIN Project.before.scoreFiles :
               Project.before.scoreFiles[f] # Absent =>
                   Project.dir.scoreFiles[f] = Project.before.scoreFiles[f]
        /\ Project.patchTemplates = <<>> => Project.dir.state = Project.before.state
        /\ Project.dir.state # Project.before.state =>
               Project.dir.state[2].PatchingTemplates = SuppliedTemplates(Project.patchTemplates)
        /\ (Project.patchTemplates # <<>> /\ Project.error = "") =>
               Project.dir.state[2].PatchingTemplates = SuppliedTemplates(Project.patchTemplates)
        /\ SomeTemplateRejected(Project.patchTemplates) =>
               /\ Project.error # ""
               /\ Project.dir = Project.before

\* A later run of init, in a project that holds a workload, a resource and
\* shared state, has replaced two stored templates by the one supplied.
C22_Witness ==
    /\ xIn.op = "init"
    /\ xOut.run
    /\ Project.before.state # Absent
    /\ Project.before # xIn.project
    /\ Project.before.state[2].Workloads # EmptyMap
    /\ Len(Project.before.state[2].PatchingTemplates) = 2
    /\ Project.error = ""
    /\ Project.dir.state[2].PatchingTemplates = <<"annotate">>

RECURSIVE SharedAfterPatches(_, _, _)
\* The shared state after the shared-state patches of the first n calls
\* were applied, in order, to shared.
SharedAfterPatches(shared, calls, n) ==
    IF n = 0 THEN shared
    ELSE PatchMap(SharedAfterPatches(shared, calls, n - 1),
                  MapOrEmpty(calls[n].output.SharedState))

\* The uid of the resource that workload w declares under the name r.
DeclaredUid(state, w, r) ==
    NewResourceUid(w, r, state.Workloads[w].resources[r].Type,
                   state.Workloads[w].resources[r].Class, state.Workloads[w].resources[r].Id)

\* Param k of the resource of the n-th call was substituted against the
\* outputs returned by an earlier call of this run.
ParamFromThisRun(state, calls, n, k) ==
    LET res == state.Resources[calls[n].uid]
        p   == res.Params[k]
    IN IF ~p.ref THEN calls[n].input.ResourceParams.m[k] = p.lit
       ELSE \E m \in 1..(n - 1) :
               /\ calls[m].uid = DeclaredUid(state, res.SourceWorkload, p.res)
               /\ ~calls[m].failed
               /\ calls[n].input.ResourceParams.m[k] =
                      MapOrEmpty(calls[m].output.ResourceOutputs)[p.key]

\* C23: within one run, the provisioner invoked for the k-th resource is
\* given the initial shared state with the shared-state patches of the
\* resources before it applied in order, and params substituted against the
\* outputs those resources returned in this run, not the persisted ones.
C23_SharedStateAndOutputsThreaded ==
    (xIn.op = "provision" /\ xOut.run) =>
        \A n \in 1..Len(xOut.out.calls) :
            /\ xOut.out.calls[n].uid = GetSortedResourceUids(xIn.state.Resources)[n]
            /\ xOut.out.calls[n].input.SharedState =
                   SharedAfterPatches(xIn.state.SharedState, xOut.out.calls, n - 1)
            /\ HasParams(xIn.state.Resources[xOut.out.calls[n].uid]) =>
                   /\ ~xOut.out.calls[n].input.ResourceParams.nil
                   /\ \A k \in DOMAIN xIn.state.Resources[xOut.out.calls[n].uid].Params :
                          ParamFromThisRun(xIn.state, xOut.out.calls, n, k)

\* The third resource of a run was given a param that an earlier resource
\* returned in this run where the persisted output was another, and a
\* shared state that the patches of the earlier resources changed.
C23_Witness ==
    /\ xIn.op = "provision"
    /\ xOut.run
    /\ Len(xOut.out.calls) = Len(UidsInOrder)
    /\ ~xOut.out.calls[Len(UidsInOrder)].input.ResourceParams.nil
    /\ xOut.out.calls[Len(UidsInOrder)].input.ResourceParams.m["host"] = "y"
    /\ "x" \in DOMAIN xIn.state.Resources[UidsInOrder[2]].Outputs
    /\ xIn.state.Resources[UidsInOrder[2]].Outputs["x"] = "old"
    /\ xIn.state.SharedState # EmptyMap
    /\ xOut.out.calls[Len(UidsInOrder)].input.SharedState # xIn.state.SharedState

\* C25: a run of ProvisionResources that fails, at whatever resource and
\* for whatever reason, returns no state and leaves the state value that was
\* passed in as it was: its resources (outputs, state, provisionerUri) and
\* its shared state are not altered by the provisioners that succeeded.
C25_FailedRunLeavesPassedState ==
    (xIn.op = "provision" /\ xOut.run /\ xOut.out.error.kind # "none") =>
        /\ xOut.out.returned = 0
        /\ xOut.out.passedIn = xIn.state

\* A run failed at its last resource after provisioners had succeeded for
\* the resources before it and changed outputs and shared state.
C25_Witness ==
    /\ xIn.op = "provision"
    /\ xOut.run
    /\ xOut.out.error.kind \in {"failed to provision", "failed to substitute params"}
    /\ xOut.out.error.uid = UidsInOrder[Len(UidsInOrder)]
    /\ \E n \in 1..Len(xOut.out.calls) : ~xOut.out.calls[n].failed
    /\ xOut.out.state.Resources # xIn.state.Resources
    /\ xOut.out.state.SharedState # xIn.state.SharedState
    /\ xOut.out.state.Resources # xIn.state.Resources
    /\ xOut.out.state.SharedState # xIn.state.SharedState

\* The stages of a template provisioner, in the order of their evaluation.
TemplateStages ==
    <<"InitTemplate", "StateTemplate", "SharedStateTemplate", "OutputsTemplate",
      "ManifestsTemplate">>

StageErrors ==
    <<"init template failed", "state template failed", "shared template failed",
      "outputs template failed", "manifests template failed">>

\* Every value that template renders from field is the value of seen.
Sees(template, field, rendered, seen) ==
    \A k \in DOMAIN template.f :
        template.f[k].from = field => rendered[k] = Lookup(seen, template.f[k].k)

\* C24: a template provisioner evaluates init, state, shared, outputs and
\* manifests in that order: the state template sees the init of this call,
\* the later templates the state of this call and not the persisted one,
\* the outputs and manifests templates the shared state with the shared
\* patch of this call applied; an error in a stage is an error of Provision,
\* named after the first stage that fails, with no output.
C24_TemplateStagesInOrder ==
    (xIn.op = "template" /\ xOut.run) =>
        LET p   == xIn.provisioner
            out == xOut.out.output
            bad == {i \in 1..Len(TemplateStages) : p[TemplateStages[i]].bad}
        IN /\ bad # {} => /\ xOut.out.nil
                          /\ xOut.out.err = StageErrors[CHOOSE i \in bad : \A j \in bad : i <= j]
           /\ xOut.out.err # "" => xOut.out.nil
           /\ xOut.out.err = "" =>
                 /\ ~xOut.out.nil
                 /\ Sees(p.StateTemplate, "init", out.ResourceState.m,
                         renderTemplateAndDecode(p.InitTemplate, Data(xIn.input)).out)
                 /\ Sees(p.StateTemplate, "state", out.ResourceState.m,
                         xIn.input.ResourceState)
                 /\ Sees(p.SharedStateTemplate, "state", out.SharedState.m,
                         out.ResourceState.m)
                 /\ Sees(p.OutputsTemplate, "state", out.ResourceOutputs.m,
                         out.ResourceState.m)
                 /\ Sees(p.OutputsTemplate, "shared", out.ResourceOutputs.m,
                         PatchMap(xIn.input.SharedState, out.SharedState.m))
                 /\ \A n \in 1..Len(out.Manifests) :
                       /\ Sees(p.ManifestsTemplate, "state", out.Manifests[n].data,
                               out.ResourceState.m)
                       /\ Sees(p.ManifestsTemplate, "shared", out.Manifests[n].data,
                               PatchMap(xIn.input.SharedState, out.SharedState.m))

\* A call whose state template read the init of this call, whose outputs
\* read a state and a shared value that differ from the persisted ones, and
\* whose manifest read a shared key that this call's patch deleted.
C24_Witness ==
    /\ xIn.op = "template"
    /\ xOut.run
    /\ xOut.out.err = ""
    /\ xOut.out.output.ResourceState.m = [k \in {"a", "b"} |->
                                            IF k = "a" THEN "thing.default#w.r" ELSE "stuff"]
    /\ xOut.out.output.ResourceOutputs.m = [k \in {"b", "c", "i"} |->
                                              IF k = "i" THEN "thing.default#w.r" ELSE "stuff"]
    /\ Len(xOut.out.output.Manifests) = 1
    /\ xOut.out.output.Manifests[1].data["s"] = "<no value>"

\* C26 as stated: for every workload and every declared service port with
\* number n, the WorkloadServices entry of the workload has a ports entry
\* under the decimal string of n whose port number is n, whatever the names
\* of the ports and however many ports share a number.
C26_EveryPortUnderItsNumber ==
    (xIn.op = "services" /\ xOut.run) =>
        \A w \in DOMAIN xIn.workloads :
            \A s \in DOMAIN xIn.workloads[w].ports :
                LET n == xIn.workloads[w].ports[s].Port IN
                /\ ToString(n) \in DOMAIN xOut.out[w].Ports
                /\ xOut.out[w].Ports[ToString(n)].Port = n

\* C26 as the code has it: every declared port is under its name, and under
\* the decimal string of its number n there is an entry, which is the port
\* declared under that very name when there is one, and otherwise one of
\* the declared ports with number n.
C26_PortUnderNumberUnlessNamed ==
    (xIn.op = "services" /\ xOut.run) =>
        \A w \in DOMAIN xIn.workloads :
            \A s \in DOMAIN xIn.workloads[w].ports :
                LET declared == xIn.workloads[w].ports
                    n        == declared[s].Port
                    entry    == xOut.out[w].Ports[ToString(n)]
                IN /\ xOut.out[w].Ports[s].Name = s
                   /\ xOut.out[w].Ports[s].Port = n
                   /\ ToString(n) \in DOMAIN xOut.out[w].Ports
                   /\ IF ToString(n) \in DOMAIN declared
                      THEN entry.Name = ToString(n) /\ entry.Port = declared[ToString(n)].Port
                      ELSE entry.Port = n /\ entry.Name \in DOMAIN declared
                           /\ declared[entry.Name].Port = n
                           /\ entry.TargetPort = xOut.out[w].Ports[entry.Name].TargetPort

\* Two ports share the number 80 and are entered under "80", and a port
\* named "8080" with number 80 keeps the entry "8080" although another port
\* has the number 8080.
C26_Witness ==
    /\ xIn.op = "services"
    /\ xOut.run
    /\ DOMAIN xIn.workloads["w1"].ports = {"web", "admin", "8080"}
    /\ xIn.workloads["w1"].ports["web"].Port = 8080
    /\ xIn.workloads["w1"].ports["admin"].Port = 80
    /\ xIn.workloads["w1"].ports["8080"].Port = 80
    /\ xOut.out["w1"].Ports["80"].Name = "admin"
    /\ xOut.out["w1"].Ports["8080"].Port = 80

\* The pod templates of the converter inputs that the converter binary of
\* the workload was given.
PodTemplates ==
    IF xIn.op = "workload" /\ xOut.run
    THEN {xOut.out.stdin[i].PodTemplate : i \in 1..Len(xOut.out.stdin)}
    ELSE {}

\* The positions of the mounts at a mount path.
MountsAt(mounts, mountPath) == {i \in 1..Len(mounts) : mounts[i].MountPath = mountPath}

\* C27 as stated: within the container, the volume mounts appear in the
\* order in which the volumes and the files were declared, the declared
\* volumes before the declared files.
C27_MountsInDeclarationOrder ==
    \A t \in PodTemplates :
        /\ \A i \in 1..Len(xIn.volumes) : t.VolumeMounts[i].Name = <<"vol-", ToString(i - 1)>>
        /\ "declared" \in DOMAIN xIn =>
               \A i, j \in 1..Len(xIn.declared) :
                   (i < j /\ Dir(xIn.declared[i]) # Dir(xIn.declared[j])) =>
                       \A a \in MountsAt(t.VolumeMounts, Dir(xIn.declared[i])) :
                           \A b \in MountsAt(t.VolumeMounts, Dir(xIn.declared[j])) :
                               (a > Len(xIn.volumes) /\ b > Len(xIn.volumes)) => a < b

\* The declared volume is backed by a ConfigMap or a Secret: the "source"
\* output of its resource is a configMap or a secret volume source.
BackedByConfigMapOrSecret(volume) ==
    /\ "source" \in DOMAIN volume.outputs
    /\ volume.outputs["source"] \in {"ConfigMap", "Secret"}

\* The indices (from 1) of the declared volumes that are not backed by a
\* ConfigMap or a Secret, in declaration order.
OtherVolumes ==
    SelectSeq([i \in 1..Len(xIn.volumes) |-> i],
              LAMBDA i : ~BackedByConfigMapOrSecret(xIn.volumes[i]))

\* The indices of the declared volumes backed by a ConfigMap or a Secret
\* that are mounted at the path.
BackedVolumesAt(mountPath) ==
    {i \in 1..Len(xIn.volumes) :
        BackedByConfigMapOrSecret(xIn.volumes[i]) /\ xIn.volumes[i].target = mountPath}

\* The declared files mounted at the path.
FilesAt(mountPath) == {f \in DOMAIN xIn.files : Dir(f) = mountPath}

\* More than one ConfigMap or Secret of the container is mounted at the
\* path.
SharedMountPath(mountPath) ==
    Cardinality(BackedVolumesAt(mountPath)) + Cardinality(FilesAt(mountPath)) > 1

\* C27 as the code has it: the mounts of the declared volumes that are not
\* backed by a ConfigMap or a Secret come first, in declaration order; the
\* mounts backed by a ConfigMap or a Secret, which are those of every file
\* and of the declared volumes with such a source, follow in ascending
\* order of mount path, one mount for each path, a projected mount
\* proj-vol-N where several share the path; and the pod volumes of the
\* container are those of the mounts that are not volume claims, in the
\* same order.
C27_VolumesThenFilesByMountPath ==
    \A t \in PodTemplates :
        LET mounts  == t.VolumeMounts
            nv      == Len(OtherVolumes)
            ofVols  == SelectSeq(mounts, LAMBDA m : \E i \in 1..Len(t.Volumes) :
                                                       t.Volumes[i].Name = m.Name)
        IN /\ Len(mounts) >= nv
           /\ \A k \in 1..nv :
                 /\ mounts[k].Name = <<"vol-", ToString(OtherVolumes[k] - 1)>>
                 /\ mounts[k].MountPath = xIn.volumes[OtherVolumes[k]].target
           /\ \A i, j \in (nv + 1)..Len(mounts) :
                 i < j => StringLess(mounts[i].MountPath, mounts[j].MountPath)
           /\ {mounts[i].MountPath : i \in (nv + 1)..Len(mounts)} =
                 {Dir(f) : f \in DOMAIN xIn.files}
                    \cup {xIn.volumes[i].target :
                             i \in {j \in 1..Len(xIn.volumes) :
                                       BackedByConfigMapOrSecret(xIn.volumes[j])}}
           /\ \A i \in (nv + 1)..Len(mounts) :
                 IF SharedMountPath(mounts[i].MountPath)
                 THEN mounts[i].Name =
                         <<"proj-vol-",
                           ToString(Cardinality({j \in (nv + 1)..(i - 1) :
                                                    SharedMountPath(mounts[j].MountPath)}))>>
                 ELSE \A v \in BackedVolumesAt(mounts[i].MountPath) :
                         mounts[i].Name = <<"vol-", ToString(v - 1)>>
           /\ Len(ofVols) = Len(t.Volumes)
           /\ \A i \in 1..Len(t.Volumes) : t.Volumes[i].Name = ofVols[i].Name

\* A ConfigMap volume declared first at /b and an emptyDir volume declared
\* second at /a, with files declared at /b then at /a: the emptyDir volume
\* is mounted first, the file at /a second, and the ConfigMap volume and
\* the file at /b share the projected mount that comes last.
C27_Witness ==
    /\ PodTemplates # {}
    /\ "declared" \in DOMAIN xIn
    /\ xIn.volumes = <<SourceVolume(<<"/", "b">>, "ConfigMap"),
                       SourceVolume(<<"/", "a">>, "EmptyDir")>>
    /\ Dir(xIn.declared[1]) = <<"/", "b">>
    /\ Dir(xIn.declared[2]) = <<"/", "a">>
    /\ \A t \in PodTemplates :
          /\ Len(t.VolumeMounts) = 3
          /\ t.VolumeMounts[1].Name = <<"vol-", "1">>
          /\ t.VolumeMounts[2].MountPath = <<"/", "a">>
          /\ t.VolumeMounts[3].Name = <<"proj-vol-", "0">>
          /\ t.VolumeMounts[3].MountPath = <<"/", "b">>

\* The pod templates, with the volume claim templates beside them, of the
\* converter inputs that the converter binary of a workload of several
\* containers was given.
ConvertedPods ==
    IF xIn.op = "pod" /\ xOut.run
    THEN {[Template |-> xOut.out.stdin[i].PodTemplate,
           Claims |-> xOut.out.stdin[i].VolumeClaimTemplates] : i \in 1..Len(xOut.out.stdin)}
    ELSE {}

\* C28: in every pod template converted for a workload, the names of the
\* pod volumes and of the volume claim templates are pairwise distinct over
\* all containers of the workload, so that no volume mount of a container
\* names the volume built from the declaration of another container.
C28_VolumeNamesDistinct ==
    \A p \in ConvertedPods :
        LET names == [i \in 1..Len(p.Template.Volumes) |-> p.Template.Volumes[i].Name]
                        \o [i \in 1..Len(p.Claims) |-> p.Claims[i].Name]
        IN \A i, j \in 1..Len(names) : names[i] = names[j] => i = j

\* The references to secrets that the value of a variable holds inside
\* text, each to be read through a synthetic env var.
ReferencesInText(value) ==
    LET d == DecodeSecretReferences(value)
    IN IF d.err \/ Len(d.refs) = 0 \/ IsWholeValueRef(d.parts, d.refs) THEN {}
       ELSE Range(d.refs)

\* C29: references to different (secret name, key) pairs never get the same
\* synthetic env var name, so that in the env of the container the
\* synthetic env var of every reference held in a value reads the secret
\* and the key of that reference.
C29_SyntheticNamesResolve ==
    (xIn.op = "variables" /\ xOut.run /\ xOut.out.outcome = "ok") =>
        \A k \in DOMAIN xIn.variables :
            \A r \in ReferencesInText(xIn.variables[k]) :
                /\ \A k2 \in DOMAIN xIn.variables :
                      \A r2 \in ReferencesInText(xIn.variables[k2]) :
                          r2 # r => generateSecretRefEnvVarName(r2.Name, r2.Key)
                                        # generateSecretRefEnvVarName(r.Name, r.Key)
                /\ \A i \in 1..Len(xOut.out.env) :
                      xOut.out.env[i].Name = generateSecretRefEnvVarName(r.Name, r.Key)
                          => xOut.out.env[i].ValueFrom = SecretKeyRef(r)

\* C30: whatever the number and the placement of the opening and closing
\* sentinels in the substituted value, convertContainerVariable returns env
\* vars or an error; it never reads a text segment or a reference at an
\* index that does not exist.
C30_NoIndexOutOfRange ==
    cEnv.run => cEnv.out.outcome \in {"ok", "error"}

====
